---------------------------- MODULE Spec2Model ----------------------------
(***************************************************************************)
(* The ingestion pipeline of sanskrit/setup.py (run and the add_* stage    *)
(* functions), the Context constructor of sanskrit/context.py and the CSV  *)
(* reader of sanskrit/util/functions.py, as a state machine.               *)
(*                                                                         *)
(* One action models one call (drop_all, create_all, add_tags), the start  *)
(* of a stage function (the ENUM lookups it makes before its loop), one    *)
(* iteration of a stage's loop over its resource file, or the code after   *)
(* the loop (commit, close, report).  A KeyError raised by a lookup stops  *)
(* the run: err records it and no action is enabled afterwards.            *)
(*                                                                         *)
(* The resource files other than the enum document are determined as they  *)
(* are read: a loop iteration either re-reads a record already fixed (a    *)
(* second run over the same files) or fixes the next record of the file    *)
(* from the record domain of that file; the end of a file is fixed the     *)
(* same way.                                                               *)
(***************************************************************************)
EXTENDS Integers, Sequences, FiniteSets, TLC

\* ------------------------------------------------------------------ bounds

\* The size of the input of a run: the records of the resource files other
\* than the enum document, plus the departures of the enum document from the
\* standard document (a category left out, the gender groups put first, a
\* group with an unknown member).
MaxInput == 2
\* Runs of the pipeline in one process.
MaxRuns == 2
\* The size of the input up to which a finished run is followed by another.
MaxRerunInput == 1
\* add_verbs commits every 1000 rows (setup.py:309); the model scales the
\* period down so that a periodic commit happens within MaxInput.
VerbCommitEvery == 1
\* add_participle_stems commits every 100 rows (setup.py:377), scaled likewise.
PartCommitEvery == 1
\* add_noun_stems and add_adjective_stems insert their buffer every 500 rows
\* (setup.py:492, 557), scaled likewise.
BatchSize == 2
\* Reads of the registry's properties by the caller of one Context.
MaxReads == 2
\* The departures of the enum document from the standard document, for a
\* process that builds the enumerated data only.
MaxDoc == 1

\* ------------------------------------------------------------ Python values

\* Python's None; no text value of any domain below equals it.
None == "<None>"
\* The id column of a row built with None for the id (the store's NULL); the
\* ids the store assigns start at 1.
Null == 0
\* An abbreviation that no enum document defines.
Unknown == "zz"
\* A mapping with no key (Python's {}).
EmptyMap == [x \in {} |-> 0]

Range(s) == {s[j] : j \in 1..Len(s)}

\* A Context on which _build_enums has not run: the attributes _enum_id,
\* _enum_abbr and _gender_set do not exist (reading one raises
\* AttributeError).
Unset == [set |-> FALSE, enum_id |-> EmptyMap, enum_abbr |-> EmptyMap, gender_set |-> EmptyMap]

\* No property of the registry has been read yet.
NoAccess == [prop |-> None, value |-> EmptyMap, err |-> None, n |-> 0]

Min(S) == CHOOSE x \in S : \A y \in S : x <= y

\* dict[key] = value
Put(m, k, v) == [x \in (DOMAIN m) \cup {k} |-> IF x = k THEN v ELSE m[x]]

\* util.read_csv: csv.DictReader yields, per line, a dict over the header's
\* columns; a column the line has no field for gets restval, None, and an
\* empty field is the empty string.
read_csv(header, line) == [c \in header |-> IF c \in DOMAIN line THEN line[c] ELSE None]

\* ------------------------------------------------------------------ schema

EnumClasses == <<"Modification", "VClass", "Person", "Number", "Mode", "Voice",
                 "Gender", "Case", "SandhiType">>

\* cls.__tablename__ of the classes add_enums names.
TableName(cls) ==
    CASE cls = "Modification" -> "modification"
      [] cls = "VClass" -> "vclass"
      [] cls = "Person" -> "person"
      [] cls = "Number" -> "number"
      [] cls = "Mode" -> "mode"
      [] cls = "Voice" -> "voice"
      [] cls = "Gender" -> "gender"
      [] cls = "Case" -> "case"
      [] cls = "SandhiType" -> "sandhi_type"
      [] cls = "GenderGroup" -> "gender_group"
      [] OTHER -> None

EnumTables == {TableName(EnumClasses[j]) : j \in 1..Len(EnumClasses)}

Tables == EnumTables \cup
          {"gender_group", "tag", "sandhi_rule", "indeclinable", "verb_prefix",
           "verb_ending", "root", "prefixed_root", "paradigm", "verb", "participle_stem",
           "gerund", "infinitive", "nominal_ending", "noun_stem",
           "adjective_stem", "stem_irregularity", "noun", "adjective",
           "pronoun_stem", "pronoun"}

\* The upper-case attributes of the schema's Tag class, with their ids.
TagKeys == <<"NOUN", "ADJECTIVE", "VERB", "PRONOUN">>

NoRows == [t \in Tables |-> <<>>]

\* ----------------------------------------------------------- enum document

Item(n, a) == [name |-> n, abbr |-> a, members |-> <<>>]
Group(n, a, ms) == [name |-> n, abbr |-> a, members |-> ms]

\* The items of each ordinary category of the enum document.
StdItems(cls) ==
    CASE cls = "Modification" -> <<Item("causative", "caus")>>
      [] cls = "VClass" -> <<Item("bhvadi", "1")>>
      [] cls = "Person" -> <<Item("third", "3")>>
      [] cls = "Number" -> <<Item("singular", "s")>>
      [] cls = "Mode" -> <<Item("present", "pres")>>
      [] cls = "Voice" -> <<Item("parasmaipada", "para")>>
      [] cls = "Gender" -> <<Item("masculine", "m"), Item("feminine", "f")>>
      [] cls = "Case" -> <<Item("nominative", "1")>>
      [] cls = "SandhiType" -> <<Item("external", "ext")>>

\* The gender groups a document may declare: all members known genders, or
\* a second group with a member that is no gender.
StdGroups == <<Group("masculine or feminine", "mf", <<"m", "f">>)>>
GroupChoices ==
    { StdGroups,
      <<Group("masculine", "m", <<"m">>),
        Group("masculine or other", "mz", <<"m", Unknown>>)>> }

Entry(cls, items) == [name |-> cls, items |-> items]

RECURSIVE Keep(_, _)
\* The entries of s whose class is not in miss.
Keep(s, miss) ==
    IF s = <<>> THEN <<>>
    ELSE IF Head(s).name \in miss THEN Keep(Tail(s), miss)
         ELSE <<Head(s)>> \o Keep(Tail(s), miss)

StdEntries == [j \in 1..Len(EnumClasses) |-> Entry(EnumClasses[j], StdItems(EnumClasses[j]))]

\* An enum document: the standard categories, an entry of a name add_enums
\* does not know and the gender groups g, put first or last, without the
\* categories in miss.
EnumDoc(first, g, miss) ==
    Keep(IF first THEN <<Entry("GenderGroup", g)>> \o StdEntries \o <<Entry("Other", <<>>)>>
                  ELSE StdEntries \o <<Entry("Other", <<>>), Entry("GenderGroup", g)>>,
         miss)

\* Its departures from the standard document.
DocSize(first, g, miss) ==
    Cardinality(miss) + (IF first THEN 1 ELSE 0) + (IF Len(g) > 1 THEN 1 ELSE 0)

\* --------------------------------------------------------------- variables

VARIABLES
    fn,         \* the call run is at: drop_all, create_all, a stage function, done
    inside,     \* TRUE inside fn's body (after its first lines), FALSE before the call
    err,        \* the exception that ended the run inside fn, or None
    runs,       \* runs started in this process
    seen,       \* the rows per table the caller saw after each finished run
    ctx,        \* the Context object: its config, whether it has an engine
    new,        \* the call Context(config, connect) and how far it has got
    calls,      \* the calls made by run, add_verbal and add_nominals so far, in order
    ENUM,       \* setup.ENUM, the process-wide map: table name -> (abbr -> id)
    schema,     \* whether the tables exist in the store
    db,         \* committed rows of each table
    sess,       \* rows added to the session (flushed or not) and not committed
    files,      \* the records of each resource file, as far as fixed
    known,      \* the resource files whose end is fixed
    size,       \* the size of the input fixed so far
    pos,        \* index of the record of its file fn is at (0: none reached)
    pass,       \* add_enums: 1 in the first pass, 2 in the second, else 0
    root_map,   \* add_roots' root_map, add_verbal's roots: <<name, hom>> -> id
    prefix_map, \* add_verb_prefixes' prefix_map, add_verbal's prefixes
    skipped,    \* the skipped set of the stage running
    i,          \* the counter i of the stage running
    buf,        \* the buffer of add_noun_stems / add_adjective_stems
    out,        \* what the stages have printed as 'Skipped n roots.': <<stage, n>>
    execs,      \* the bulk inserts conn.execute has issued in this run: <<stage, rows>>
    registry,   \* the Context's _enum_id, _enum_abbr, _gender_set, once they are set
    builds,     \* how often _build_enums has run on the Context
    ret         \* what the last access to enum_id, enum_abbr or gender_set gave

vars == <<fn, inside, err, runs, seen, ctx, new, calls, ENUM, schema, db, sess, files, known,
          size, pos, pass, root_map, prefix_map, skipped, i, buf, out, execs,
          registry, builds, ret>>

FileKeys == {"ENUMS", "SANDHI", "INDECLINABLES", "VERB_PREFIXES", "VERB_ENDINGS",
             "ROOTS", "VERBS", "PARTICIPLE_STEMS", "GERUNDS", "INFINITIVES",
             "NOMINAL_ENDINGS", "NOUN_STEMS", "IRREGULAR_NOUNS",
             "ADJECTIVE_STEMS", "IRREGULAR_ADJECTIVES", "PRONOUNS",
             "PREFIXED_ROOTS", "MODIFIED_ROOTS"}

\* ------------------------------------------------------------ store, session

\* The id the store assigns to the next row of table t.
NewId(t) == Len(db[t]) + Len(sess[t]) + 1

\* An add that puts the row into the Gender table.
AddToGender(s, t, row) == [s EXCEPT !["gender"] = Append(@, row)]

\* session.add(row) [+ session.flush()], on the session s.
Add(s, t, row) == [s EXCEPT ![t] = Append(@, row)]

\* session.commit(): every pending row becomes a committed row.
Committed(d, s) == [t \in Tables |-> d[t] \o s[t]]

\* A flush that commits, as a session in autocommit mode would.
FlushCommits(d, s) == Committed(d, s)

\* session.flush(): the pending rows s get their ids inside the open
\* transaction; the committed rows d stay as they are.
Flush(d, s) == d

\* Where a row comes from (no column of the row): the file key, the index of
\* the record in the file, and the index of the item inside the record (0 for
\* the record's own row).
Src(k, j) == <<k, pos, j>>

\* A drop_all that leaves the rows where they are.
DropAllKeepsRows(d) == d

\* Base.metadata.drop_all(engine): every table goes, with its rows.
DropAllRows(d) == NoRows

\* ------------------------------------------------------------ control flow

Leaves == <<"add_tags", "add_enums", "add_sandhi", "add_indeclinables",
            "add_verb_prefixes", "add_verb_endings", "add_roots", "add_verbs",
            "add_participle_stems", "add_verbal_indeclinables",
            "add_nominal_endings", "add_noun_stems", "add_irregular_nouns",
            "add_adjective_stems", "add_irregular_adjectives", "add_pronouns">>

\* A run that does not call add_sandhi.
NextFnSkipsSandhi(f) ==
    LET j == CHOOSE k \in 1..Len(Leaves) : Leaves[k] = f
    IN IF j = Len(Leaves) THEN "done"
       ELSE IF Leaves[j + 1] = "add_sandhi" THEN Leaves[j + 2] ELSE Leaves[j + 1]

\* The function run (or add_verbal, add_nominals) calls after f returns.
NextFn(f) ==
    LET j == CHOOSE k \in 1..Len(Leaves) : Leaves[k] = f
    IN IF j = Len(Leaves) THEN "done" ELSE Leaves[j + 1]

\* The calls made on the way into f: add_verbal and add_nominals are entered
\* with their first stage.
Entering(f) ==
    CASE f = "add_verb_prefixes" -> <<"add_verbal", f>>
      [] f = "add_nominal_endings" -> <<"add_nominals", f>>
      [] OTHER -> <<f>>

\* A run that goes on after an exception.
RunningAfterError == fn # "done"

Running == err = None /\ fn # "done"

\* What the stage functions never touch.
proc == <<runs, seen, ctx, new, registry, builds, ret>>
ctl == <<fn, inside, err, proc, calls>>
store == <<schema, db, sess>>
input == <<files, known, size>>
locals == <<root_map, prefix_map, skipped, i, buf, out, execs>>

\* fn is called and its first lines run without error.
Enter(f) ==
    /\ Running /\ fn = f /\ ~inside
    /\ inside' = TRUE
    /\ calls' = calls \o Entering(f)
    /\ pos' = 1
    /\ UNCHANGED <<fn, err, proc>>

\* f is called and a lookup in its first lines raises KeyError.
EnterRaise(f) ==
    /\ Running /\ fn = f /\ ~inside
    /\ inside' = TRUE
    /\ calls' = calls \o Entering(f)
    /\ err' = "KeyError"
    /\ pos' = 0
    /\ UNCHANGED <<fn, proc>>

\* f is in its loop, at a record of its file.
InLoop(f) == Running /\ fn = f /\ inside

\* A lookup in the loop of fn raises KeyError: the exception leaves run.
Raise ==
    /\ err' = "KeyError"
    /\ UNCHANGED <<fn, inside, proc, calls>>

\* The loop of fn goes on to the next record.
Continue ==
    /\ pos' = pos + 1
    /\ UNCHANGED ctl

\* f returns to its caller, which calls the next function.
Return(f) ==
    /\ fn' = NextFn(f)
    /\ inside' = FALSE
    /\ pos' = 1
    /\ UNCHANGED <<err, proc, calls>>

\* The ENUM categories cats are all present (ENUM[c] raises for none).
Has(cats) == cats \subseteq DOMAIN ENUM

\* --------------------------------------------------------------- the files

\* The loop reads r, the record of file k at pos: one fixed by an earlier
\* read, or the next record of a file not read to its end before.
Reads(k, r) ==
    IF pos <= Len(files[k])
    THEN r = files[k][pos] /\ UNCHANGED input
    ELSE /\ k \notin known
         /\ size < MaxInput
         /\ files' = [files EXCEPT ![k] = Append(@, r)]
         /\ size' = size + 1
         /\ UNCHANGED known

\* The loop finds file k at its end.
AtEnd(k) ==
    /\ pos > Len(files[k])
    /\ known' = known \cup {k}
    /\ UNCHANGED <<files, size>>

\* ------------------------------------------------- Context (context.py)

\* A key of a settings source is the sequence of its characters; a path is
\* the sequence of its separators "/" and its names.

UpperLetters ==
    {"A", "B", "C", "D", "E", "F", "G", "H", "I", "J", "K", "L", "M", "N",
    "O", "P", "Q", "R", "S", "T", "U", "V", "W", "X", "Y", "Z"}
LowerLetters ==
    {"a", "b", "c", "d", "e", "f", "g", "h", "i", "j", "k", "l", "m", "n",
    "o", "p", "q", "r", "s", "t", "u", "v", "w", "x", "y", "z"}

\* key.isupper(): some cased character, and no lower-case one.
isupper(key) ==
    /\ \E j \in 1..Len(key) : key[j] \in UpperLetters
    /\ \A j \in 1..Len(key) : key[j] \notin LowerLetters

DATA_PATH == <<"D", "A", "T", "A", "_", "P", "A", "T", "H">>
DATABASE_URI == <<"D", "A", "T", "A", "B", "A", "S", "E", "_", "U", "R", "I">>

\* The calls default(name, file) of the constructor, in order.
Defaults ==
    << << <<"A", "D", "J", "E", "C", "T", "I", "V", "E", "_", "S", "T", "E", "M", "S">>,
          "adjective-stems.csv" >>,
       << <<"E", "N", "U", "M", "S">>,
          "enums.yml" >>,
       << <<"G", "E", "R", "U", "N", "D", "S">>,
          "gerunds.csv" >>,
       << <<"I", "N", "D", "E", "C", "L", "I", "N", "A", "B", "L", "E", "S">>,
          "indeclinables.yml" >>,
       << <<"I", "N", "F", "I", "N", "I", "T", "I", "V", "E", "S">>,
          "infinitives.csv" >>,
       << <<"I", "R", "R", "E", "G", "U", "L", "A", "R", "_", "A", "D", "J", "E", "C", "T", "I", "V", "E", "S">>,
          "irregular-adjectives.yml" >>,
       << <<"I", "R", "R", "E", "G", "U", "L", "A", "R", "_", "N", "O", "U", "N", "S">>,
          "irregular-nouns.yml" >>,
       << <<"M", "O", "D", "I", "F", "I", "E", "D", "_", "R", "O", "O", "T", "S">>,
          "modified-roots.yml" >>,
       << <<"N", "O", "M", "I", "N", "A", "L", "_", "E", "N", "D", "I", "N", "G", "S">>,
          "nominal-endings.yml" >>,
       << <<"N", "O", "U", "N", "_", "S", "T", "E", "M", "S">>,
          "noun-stems.csv" >>,
       << <<"P", "A", "R", "T", "I", "C", "I", "P", "L", "E", "_", "S", "T", "E", "M", "S">>,
          "participle-stems.csv" >>,
       << <<"P", "R", "E", "F", "I", "X", "_", "G", "R", "O", "U", "P", "S">>,
          "prefix-groups.yml" >>,
       << <<"P", "R", "E", "F", "I", "X", "E", "D", "_", "R", "O", "O", "T", "S">>,
          "prefixed-roots.yml" >>,
       << <<"P", "R", "O", "N", "O", "U", "N", "S">>,
          "pronouns.yml" >>,
       << <<"R", "O", "O", "T", "S">>,
          "roots.yml" >>,
       << <<"S", "A", "N", "D", "H", "I">>,
          "sandhi.yml" >>,
       << <<"V", "E", "R", "B", "_", "E", "N", "D", "I", "N", "G", "S">>,
          "verb-endings.yml" >>,
       << <<"V", "E", "R", "B", "_", "P", "R", "E", "F", "I", "X", "E", "S">>,
          "verb-prefixes.yml" >>,
       << <<"V", "E", "R", "B", "_", "S", "T", "E", "M", "S">>,
          "verb-stems.yml" >>,
       << <<"V", "E", "R", "B", "S">>,
          "verbs.csv" >> >>

RECURSIVE join(_, _)
\* os.path.join(a, *p): a component that starts with a separator replaces
\* what came before it; otherwise it is appended, after a separator unless
\* the path so far is empty or ends with one.
join(a, p) ==
    IF p = <<>> THEN a
    ELSE LET b == Head(p)
         IN join(IF b # <<>> /\ Head(b) = "/" THEN b
                 ELSE IF a = <<>> \/ a[Len(a)] = "/" THEN a \o b
                 ELSE a \o <<"/">> \o b,
                 Tail(p))

\* A default that replaces what the caller supplied.
setdefaultOverwrites(m, k, v) == Put(m, k, v)

\* dict.setdefault(k, v)
setdefault(m, k, v) == IF k \in DOMAIN m THEN m ELSE Put(m, k, v)

\* default(name, *args), on the config so far; DATA_PATH is in it.
default(config, name, file) ==
    setdefault(config, name, join(config[DATA_PATH], << <<"lang">>, <<file>> >>))

RECURSIVE Defaulted(_, _)
\* The config after the first n calls of default.
Defaulted(config, n) ==
    IF n = 0 THEN config
    ELSE default(Defaulted(config, n - 1), Defaults[n][1], Defaults[n][2])

\* The values a caller gives DATA_PATH: relative, with a trailing separator,
\* absolute, empty.
DataPaths == { <<"data">>, <<"data", "/">>, <<"/", "srv", "/", "data">>, <<>> }

\* The keys a settings source may hold besides DATA_PATH: the database URI,
\* the keys of the second and the last default, and keys that are not upper
\* case (lower case, mixed case, no cased character).
SettingKeys ==
    { DATABASE_URI, Defaults[2][1], Defaults[Len(Defaults)][1],
      <<"d", "a", "t", "a", "_", "p", "a", "t", "h">>, <<"E", "n", "u", "m", "s">>, <<"_", "1">> }

\* The value the caller gives key k.
Supplied(k) ==
    IF k = DATABASE_URI THEN <<"sqlite://">> ELSE <<"my", "/", "file">>

\* The settings sources: a mapping (None and {} are the one without keys) of
\* some of these keys, or one that supplies the key of every default.
Settings ==
    { [k \in K |-> IF k = DATA_PATH THEN dp ELSE Supplied(k)] :
        K \in SUBSET (SettingKeys \cup {DATA_PATH}), dp \in DataPaths } \cup
    { [k \in K \cup {Defaults[j][1] : j \in 1..Len(Defaults)} |->
            IF k = DATA_PATH THEN dp ELSE Supplied(k)] :
        K \in SUBSET {DATA_PATH, DATABASE_URI}, dp \in DataPaths }

\* The names dir() lists for the module a settings file is loaded into,
\* besides the names the file binds.
ModuleNames == { <<"_", "_", "f", "i", "l", "e", "_", "_">>, <<"_", "_", "d", "o", "c", "_", "_">> }

\* Context(config, connect) is called: config a mapping, the path of a
\* settings file that binds the mapping's names, or the path of no file.
Calls ==
    { [config |-> m, source |-> k, connect |-> c, at |-> "load", n |-> 1, err |-> None] :
        m \in Settings, k \in {"mapping", "path", "nopath"}, c \in BOOLEAN }

\* A call that has returned, and the Context it built, for setup.run.
StdNew ==
    [config |-> [k \in {DATA_PATH, DATABASE_URI} |->
                    IF k = DATA_PATH THEN <<"data">> ELSE Supplied(k)],
     source |-> "mapping", connect |-> TRUE, at |-> "ready",
     n |-> Len(Defaults) + 1, err |-> None]
StdCtx == [config |-> Defaulted(StdNew.config, Len(Defaults)), engine |-> TRUE]

\* What the constructor never touches.
pipeline == <<fn, inside, err, runs, seen, calls, ENUM, schema, db, sess, files,
              known, size, pos, pass, root_map, prefix_map, skipped, i, buf, out, execs,
              registry, builds, ret>>

\* self.config = {}; self.engine = None; a string is taken as the path of a
\* settings file, which is executed into a new module: IOError if it cannot
\* be read.
CtxLoad ==
    /\ new.at = "load"
    /\ ctx' = [config |-> EmptyMap, engine |-> FALSE]
    /\ new' = IF new.source = "nopath"
              THEN [new EXCEPT !.at = "failed", !.err = "IOError"]
              ELSE [new EXCEPT !.at = "copy"]
    /\ UNCHANGED pipeline

\* The names the copy loop goes through: the keys of the mapping, or dir()
\* of the module.
Names(c) ==
    IF c.source = "mapping" THEN DOMAIN c.config ELSE (DOMAIN c.config) \cup ModuleNames

\* for key in config: if key.isupper(): self.config[key] = config[key]
CtxCopy ==
    /\ new.at = "copy"
    /\ ctx' = [ctx EXCEPT !.config =
                [k \in {x \in Names(new) : isupper(x)} |-> new.config[k]]]
    /\ new' = [new EXCEPT !.at = "default"]
    /\ UNCHANGED pipeline

\* A default that joins the path only for a key the caller has not supplied.
CtxDefaultLazy ==
    /\ new.at = "default"
    /\ new.n <= Len(Defaults)
    /\ IF Defaults[new.n][1] \notin DOMAIN ctx.config /\ DATA_PATH \notin DOMAIN ctx.config
       THEN /\ new' = [new EXCEPT !.at = "failed", !.err = "KeyError"]
            /\ UNCHANGED ctx
       ELSE /\ ctx' = [ctx EXCEPT !.config =
                        IF Defaults[new.n][1] \in DOMAIN @ THEN @
                        ELSE default(@, Defaults[new.n][1], Defaults[new.n][2])]
            /\ new' = [new EXCEPT !.n = @ + 1]
    /\ UNCHANGED pipeline

\* The n-th call of default: self.config['DATA_PATH'] raises KeyError if the
\* key is not there.
CtxDefault ==
    /\ new.at = "default"
    /\ new.n <= Len(Defaults)
    /\ IF DATA_PATH \notin DOMAIN ctx.config
       THEN /\ new' = [new EXCEPT !.at = "failed", !.err = "KeyError"]
            /\ UNCHANGED ctx
       ELSE /\ ctx' = [ctx EXCEPT !.config =
                        default(@, Defaults[new.n][1], Defaults[new.n][2])]
            /\ new' = [new EXCEPT !.n = @ + 1]
    /\ UNCHANGED pipeline

\* if connect and 'DATABASE_URI' in self.config: self.connect()
CtxConnect ==
    /\ new.at = "default"
    /\ new.n > Len(Defaults)
    /\ ctx' = [ctx EXCEPT !.engine = new.connect /\ DATABASE_URI \in DOMAIN ctx.config]
    /\ new' = [new EXCEPT !.at = "ready"]
    /\ UNCHANGED pipeline

\* ---------------------------------------------------------------- the run

\* Rows an earlier build left in the store.
Leftover ==
    [NoRows EXCEPT !["root"] = <<[src |-> <<"old", 0, 0>>, id |-> 1, name |-> "old"]>>,
                   !["verb"] = <<[src |-> <<"old", 0, 0>>, id |-> 1, name |-> "old",
                                  root_id |-> 1]>>]

Init ==
    /\ fn = "drop_all" /\ inside = FALSE /\ err = None /\ runs = 1 /\ seen = <<>>
    /\ ctx = StdCtx /\ new = StdNew
    /\ calls = <<>>
    /\ ENUM = EmptyMap
    /\ \/ schema = FALSE /\ db = NoRows
       \/ schema = TRUE /\ db = Leftover
    /\ sess = NoRows
    /\ \E first \in BOOLEAN, g \in GroupChoices,
          miss \in SUBSET (Range(EnumClasses) \cup {"GenderGroup"}) :
        /\ DocSize(first, g, miss) <= MaxInput
        /\ size = DocSize(first, g, miss)
        /\ files = [k \in FileKeys |-> IF k = "ENUMS" THEN EnumDoc(first, g, miss) ELSE <<>>]
    /\ known = {"ENUMS"}
    /\ pos = 1 /\ pass = 0
    /\ root_map = EmptyMap /\ prefix_map = EmptyMap
    /\ skipped = {} /\ i = 0 /\ buf = <<>> /\ out = <<>> /\ execs = <<>>
    /\ registry = Unset /\ builds = 0 /\ ret = NoAccess

\* run: ctx.drop_all()
DropAll ==
    /\ Running /\ fn = "drop_all"
    /\ db' = DropAllRows(db)
    /\ schema' = FALSE
    /\ fn' = "create_all"
    /\ calls' = Append(calls, "drop_all")
    /\ UNCHANGED <<inside, err, proc, ENUM, sess, input, pos, pass, locals>>

\* run: ctx.create_all()
CreateAll ==
    /\ Running /\ fn = "create_all"
    /\ schema' = TRUE
    /\ fn' = "add_tags"
    /\ calls' = Append(calls, "create_all")
    /\ UNCHANGED <<inside, err, proc, ENUM, db, sess, input, pos, pass, locals>>

\* add_tags: one Tag row per upper-case attribute of Tag, commit, close.
AddTags ==
    /\ Running /\ fn = "add_tags"
    /\ LET rows == [j \in 1..Len(TagKeys) |-> [src |-> <<"Tag", 0, j>>, id |-> j, name |-> TagKeys[j]]]
       IN db' = Committed(db, [sess EXCEPT !["tag"] = @ \o rows])
    /\ sess' = NoRows
    /\ calls' = Append(calls, "add_tags")
    /\ fn' = NextFn("add_tags")
    /\ UNCHANGED <<inside, err, proc, ENUM, schema, input, pos, pass, locals>>

\* ------------------------------------------------------------- add_enums

\* The rows of the items of one category, with the ids the flushes assign.
EnumRows(t, items) ==
    [j \in 1..Len(items) |->
        [src |-> Src("ENUMS", j), id |-> NewId(t) + j - 1, name |-> items[j].name,
         abbr |-> items[j].abbr]]

\* ENUM[t] after the loop over items: abbr -> id, a later item of the same
\* abbr replacing an earlier one.
RECURSIVE EnumMap(_, _, _)
EnumMap(m, rows, j) ==
    IF j > Len(rows) THEN m ELSE EnumMap(Put(m, rows[j].abbr, rows[j].id), rows, j + 1)

\* An add_enums that empties ENUM before it reads the document.
AddEnumsBeginClears ==
    /\ Enter("add_enums")
    /\ pass' = 1
    /\ ENUM' = EmptyMap
    /\ UNCHANGED <<store, input, locals>>

AddEnumsBegin ==
    /\ Enter("add_enums")
    /\ pass' = 1
    /\ UNCHANGED <<ENUM, store, input, locals>>

\* First pass, one entry of the document: a category add_enums maps gets its
\* ENUM entry reset and its items inserted and flushed one by one.
AddEnumsFirst ==
    /\ InLoop("add_enums") /\ pass = 1
    /\ pos <= Len(files["ENUMS"])
    /\ LET enum == files["ENUMS"][pos]
           t == TableName(enum.name)
       IN IF enum.name \notin Range(EnumClasses)
          THEN UNCHANGED <<ENUM, sess>>
          ELSE LET rows == EnumRows(t, enum.items)
               IN /\ sess' = [sess EXCEPT ![t] = @ \o rows]
                  /\ ENUM' = Put(ENUM, t, EnumMap(EmptyMap, rows, 1))
    /\ Continue
    /\ db' = Flush(db, sess')
    /\ UNCHANGED <<schema, input, pass, locals>>

\* A second pass that starts without the commit of the first.
AddEnumsNoCommit ==
    /\ InLoop("add_enums") /\ pass = 1
    /\ pos > Len(files["ENUMS"])
    /\ pass' = 2
    /\ pos' = 1
    /\ UNCHANGED <<ctl, ENUM, store, input, locals>>

\* session.commit() between the passes; the document is opened again.
AddEnumsCommit ==
    /\ InLoop("add_enums") /\ pass = 1
    /\ pos > Len(files["ENUMS"])
    /\ db' = Committed(db, sess)
    /\ sess' = NoRows
    /\ pass' = 2
    /\ pos' = 1
    /\ UNCHANGED <<ctl, ENUM, schema, input, locals>>

\* ENUM['gender'][x] succeeds for every member x of the item.
MembersKnown(item) ==
    \A j \in 1..Len(item.members) :
        "gender" \in DOMAIN ENUM /\ item.members[j] \in DOMAIN ENUM["gender"]

\* Second pass, one entry: a GenderGroup entry gets its ENUM entry reset and
\* its groups inserted and flushed one by one, each group's members resolved
\* through ENUM['gender'] after the flush of its row.
AddEnumsSecond ==
    /\ InLoop("add_enums") /\ pass = 2
    /\ pos <= Len(files["ENUMS"])
    /\ LET enum == files["ENUMS"][pos]
           items == enum.items
           bad == {j \in 1..Len(items) : ~MembersKnown(items[j])}
           n == IF bad = {} THEN Len(items) ELSE Min(bad)
           row(j) == IF j \in bad
                     THEN [src |-> Src("ENUMS", j), id |-> NewId("gender_group") + j - 1,
                           name |-> items[j].name, abbr |-> items[j].abbr, members |-> {}]
                     ELSE [src |-> Src("ENUMS", j), id |-> NewId("gender_group") + j - 1,
                           name |-> items[j].name, abbr |-> items[j].abbr,
                           members |-> {ENUM["gender"][x] : x \in Range(items[j].members)}]
           rows == [j \in 1..n |-> row(j)]
           done == IF bad = {} THEN rows ELSE SubSeq(rows, 1, n - 1)
       IN IF enum.name # "GenderGroup"
          THEN Continue /\ UNCHANGED <<ENUM, sess>>
          ELSE /\ sess' = [sess EXCEPT !["gender_group"] = @ \o rows]
               /\ ENUM' = Put(ENUM, "gender_group", EnumMap(EmptyMap, done, 1))
               /\ IF bad = {} THEN Continue ELSE Raise /\ UNCHANGED pos
    /\ db' = Flush(db, sess')
    /\ UNCHANGED <<schema, input, pass, locals>>

\* session.commit(); session.close()
AddEnumsEnd ==
    /\ InLoop("add_enums") /\ pass = 2
    /\ pos > Len(files["ENUMS"])
    /\ db' = Committed(db, sess)
    /\ sess' = NoRows
    /\ pass' = 0
    /\ Return("add_enums")
    /\ UNCHANGED <<ENUM, schema, input, locals>>

\* ------------------------------------------- the registry (context.py)

\* EnumBase.__subclasses__(): the classes of the ordinary enum tables.
\* GenderGroup is read on its own, by the second loop of _build_enums.
RegistryTables == EnumTables

\* The keys of an enum_abbr mapping are ids and names: an int never equals
\* a str, so the two kinds of key are kept apart.
ById(n) == <<"id", n>>
ByName(x) == <<"name", x>>

\* session.query(cls).all(): the rows of the table as the session sees
\* them, committed or flushed in its open transaction.
Query(t) == db[t] \o sess[t]

RECURSIVE IdOf(_, _, _)
\* enum_id[item.name] = enum_id[item.abbr] = item.id, item by item: a later
\* item replaces what an earlier one stored under the same string.
IdOf(m, rows, j) ==
    IF j > Len(rows) THEN m
    ELSE IdOf(Put(Put(m, rows[j].name, rows[j].id), rows[j].abbr, rows[j].id), rows, j + 1)

RECURSIVE AbbrOf(_, _, _)
\* enum_abbr[item.id] = enum_abbr[item.name] = item.abbr, item by item.
AbbrOf(m, rows, j) ==
    IF j > Len(rows) THEN m
    ELSE AbbrOf(Put(Put(m, ById(rows[j].id), rows[j].abbr), ByName(rows[j].name), rows[j].abbr),
                rows, j + 1)

\* A group read back without its members.
member_ids_none(group) == {}

\* member_ids = set([x.id for x in group.members])
member_ids(group) == group.members

RECURSIVE GenderSets(_, _, _)
\* self._gender_set[group.id] = member_ids, group by group.
GenderSets(m, rows, j) ==
    IF j > Len(rows) THEN m
    ELSE GenderSets(Put(m, rows[j].id, member_ids(rows[j])), rows, j + 1)

\* _build_enums run to its end.
Built ==
    [set |-> TRUE,
     enum_id |-> [t \in RegistryTables |-> IdOf(EmptyMap, Query(t), 1)],
     enum_abbr |-> [t \in RegistryTables |-> AbbrOf(EmptyMap, Query(t), 1)],
     gender_set |-> GenderSets(EmptyMap, Query("gender_group"), 1)]

\* _build_enums ended by the first query, the tables not being there: the
\* three attributes are set, and the first class c has its two empty
\* mappings.
Broken(c) ==
    [set |-> TRUE,
     enum_id |-> [t \in {c} |-> EmptyMap],
     enum_abbr |-> [t \in {c} |-> EmptyMap],
     gender_set |-> EmptyMap]

\* A property that reads on although the attribute is there.
CachedNever(r) == FALSE

\* try: return self._enum_id: the attribute is there.
Cached(r) == r.set

\* The caller has the control: no function of the build is running.
Idle == ~inside \/ err # None

\* The caller reads the property prop of the Context: the attribute if it
\* is there, else _build_enums runs first; session.remove() at its end
\* closes the session, and with it the open transaction.
Property(prop) ==
    /\ Idle
    /\ ret.n < MaxReads
    /\ IF Cached(registry)
       THEN /\ ret' = [prop |-> prop, value |-> registry[prop], err |-> None, n |-> ret.n + 1]
            /\ UNCHANGED <<registry, builds, sess>>
       ELSE /\ builds' = builds + 1
            /\ IF schema
               THEN /\ registry' = Built
                    /\ ret' = [prop |-> prop, value |-> Built[prop], err |-> None,
                               n |-> ret.n + 1]
                    /\ sess' = NoRows
               ELSE /\ \E c \in RegistryTables : registry' = Broken(c)
                    /\ ret' = [prop |-> prop, value |-> EmptyMap, err |-> "OperationalError",
                               n |-> ret.n + 1]
                    /\ UNCHANGED sess
    /\ UNCHANGED <<fn, inside, err, runs, seen, ctx, new, calls, ENUM, schema, db, input,
                   pos, pass, locals>>

enum_id == Property("enum_id")

enum_abbr == Property("enum_abbr")

gender_set == Property("gender_set")

\* ------------------------------------------------------------- add_sandhi

\* The rule sets of the sandhi file: a rule type and its rules.
SandhiRecords ==
    { [type |-> ty, rules |-> <<[first |-> "a", second |-> "i", result |-> "e"]>>] :
        ty \in {"ext", Unknown} }

\* stype = ENUM['sandhi_type']
AddSandhiBegin ==
    /\ IF Has({"sandhi_type"}) THEN Enter("add_sandhi") ELSE EnterRaise("add_sandhi")
    /\ UNCHANGED <<ENUM, store, input, pass, locals>>

\* One rule set: every rule gets rule_type = stype[rule_type] and is added.
AddSandhiStep ==
    /\ InLoop("add_sandhi")
    /\ \E ruleset \in SandhiRecords :
        /\ Reads("SANDHI", ruleset)
        /\ IF ruleset.rules # <<>> /\ ruleset.type \notin DOMAIN ENUM["sandhi_type"]
           THEN Raise /\ UNCHANGED <<pos, sess>>
           ELSE /\ sess' = [sess EXCEPT !["sandhi_rule"] = @ \o
                        [j \in 1..Len(ruleset.rules) |->
                            [src |-> Src("SANDHI", j), id |-> NewId("sandhi_rule") + j - 1,
                             rule_type |-> ENUM["sandhi_type"][ruleset.type],
                             first |-> ruleset.rules[j].first,
                             second |-> ruleset.rules[j].second,
                             result |-> ruleset.rules[j].result]]]
                /\ Continue
    /\ UNCHANGED <<ENUM, schema, db, pass, locals>>

\* session.commit(); session.close()
AddSandhiEnd ==
    /\ InLoop("add_sandhi")
    /\ AtEnd("SANDHI")
    /\ db' = Committed(db, sess)
    /\ sess' = NoRows
    /\ Return("add_sandhi")
    /\ UNCHANGED <<ENUM, schema, pass, locals>>

\* ------------------------------------------------------ add_indeclinables

IndeclinableRecords == {"ca"}

AddIndeclinablesBegin ==
    /\ Enter("add_indeclinables")
    /\ UNCHANGED <<ENUM, store, input, pass, locals>>

AddIndeclinablesStep ==
    /\ InLoop("add_indeclinables")
    /\ \E name \in IndeclinableRecords :
        /\ Reads("INDECLINABLES", name)
        /\ sess' = Add(sess, "indeclinable", [src |-> Src("INDECLINABLES", 0), id |-> NewId("indeclinable"),
                                            name |-> name])
    /\ Continue
    /\ UNCHANGED <<ENUM, schema, db, pass, locals>>

AddIndeclinablesEnd ==
    /\ InLoop("add_indeclinables")
    /\ AtEnd("INDECLINABLES")
    /\ db' = Committed(db, sess)
    /\ sess' = NoRows
    /\ Return("add_indeclinables")
    /\ UNCHANGED <<ENUM, schema, pass, locals>>

\* ------------------------------------------------------ add_verb_prefixes

\* The prefix groups of the verb prefix file.
PrefixRecords == { [name |-> "gati", items |-> <<"pra">>] }

\* prefix_map = {}
AddVerbPrefixesBegin ==
    /\ Enter("add_verb_prefixes")
    /\ prefix_map' = EmptyMap
    /\ UNCHANGED <<ENUM, store, input, pass, root_map, skipped, i, buf, out, execs>>

RECURSIVE PrefixMap(_, _, _, _)
\* prefix_map after the loop over the items of a group, the first id being id.
PrefixMap(m, items, j, id) ==
    IF j > Len(items) THEN m
    ELSE PrefixMap(Put(m, items[j], id + j - 1), items, j + 1, id)

\* One group: every name is added and flushed, and its id kept in prefix_map.
AddVerbPrefixesStep ==
    /\ InLoop("add_verb_prefixes")
    /\ \E group \in PrefixRecords :
        /\ Reads("VERB_PREFIXES", group)
        /\ sess' = [sess EXCEPT !["verb_prefix"] = @ \o
                     [j \in 1..Len(group.items) |->
                        [src |-> Src("VERB_PREFIXES", j), id |-> NewId("verb_prefix") + j - 1,
                         name |-> group.items[j]]]]
        /\ prefix_map' = PrefixMap(prefix_map, group.items, 1, NewId("verb_prefix"))
    /\ Continue
    /\ db' = Flush(db, sess')
    /\ UNCHANGED <<ENUM, schema, pass, root_map, skipped, i, buf, out, execs>>

\* session.commit(); session.close(); return prefix_map
AddVerbPrefixesEnd ==
    /\ InLoop("add_verb_prefixes")
    /\ AtEnd("VERB_PREFIXES")
    /\ db' = Committed(db, sess)
    /\ sess' = NoRows
    /\ Return("add_verb_prefixes")
    /\ UNCHANGED <<ENUM, schema, pass, locals>>

\* ------------------------------------------------------- add_verb_endings

Ending(p, n) == [name |-> "ti", person |-> p, number |-> n]

\* The groups of the verb endings file: a mode, a voice, a category and the
\* endings, each with a person and a number.
VerbEndingRecords ==
    { [mode |-> "pres", voice |-> "para", category |-> "simple", endings |-> <<Ending("3", "s")>>],
      [mode |-> Unknown, voice |-> "para", category |-> "simple", endings |-> <<Ending("3", "s")>>],
      [mode |-> "pres", voice |-> Unknown, category |-> "simple", endings |-> <<Ending("3", "s")>>],
      [mode |-> "pres", voice |-> "para", category |-> "simple", endings |-> <<Ending(Unknown, "s")>>],
      [mode |-> "pres", voice |-> "para", category |-> "simple",
       endings |-> <<Ending("3", "s"), Ending("3", Unknown)>>] }

\* person = ENUM['person'] ... voice = ENUM['voice']
AddVerbEndingsBegin ==
    /\ IF Has({"person", "number", "mode", "voice"})
       THEN Enter("add_verb_endings") ELSE EnterRaise("add_verb_endings")
    /\ UNCHANGED <<ENUM, store, input, pass, locals>>

\* One group: mode and voice are looked up, then every ending's person and
\* number; each ending is added and flushed before the next is built.
AddVerbEndingsStep ==
    /\ InLoop("add_verb_endings")
    /\ \E group \in VerbEndingRecords :
        /\ Reads("VERB_ENDINGS", group)
        /\ LET rows == group.endings
               head == group.mode \in DOMAIN ENUM["mode"] /\ group.voice \in DOMAIN ENUM["voice"]
               ok(j) == rows[j].person \in DOMAIN ENUM["person"]
                        /\ rows[j].number \in DOMAIN ENUM["number"]
               bad == {j \in 1..Len(rows) : ~ok(j)}
               n == IF ~head THEN 0 ELSE IF bad = {} THEN Len(rows) ELSE Min(bad) - 1
           IN /\ sess' = [sess EXCEPT !["verb_ending"] = @ \o
                            [j \in 1..n |->
                                [src |-> Src("VERB_ENDINGS", j),
                                 id |-> NewId("verb_ending") + j - 1,
                                 name |-> rows[j].name,
                                 category |-> group.category,
                                 person_id |-> ENUM["person"][rows[j].person],
                                 number_id |-> ENUM["number"][rows[j].number],
                                 mode_id |-> ENUM["mode"][group.mode],
                                 voice_id |-> ENUM["voice"][group.voice]]]]
              /\ IF head /\ bad = {} THEN Continue ELSE Raise /\ UNCHANGED pos
    /\ db' = Flush(db, sess')
    /\ UNCHANGED <<ENUM, schema, pass, locals>>

AddVerbEndingsEnd ==
    /\ InLoop("add_verb_endings")
    /\ AtEnd("VERB_ENDINGS")
    /\ db' = Committed(db, sess)
    /\ sess' = NoRows
    /\ Return("add_verb_endings")
    /\ UNCHANGED <<ENUM, schema, pass, locals>>

\* -------------------------------------------------------------- add_roots

RootNames == {"gam"}
Homs == {"2"}
Paradigm(c, v) == <<c, v>>

\* The roots of the roots file: a name, a hom key or none (item.get('hom',
\* None) reads it as None), and the paradigms as <<vclass, voice>> pairs.
RootRecords ==
    { [name |-> n, hom |-> h, paradigms |-> ps] :
        n \in RootNames, h \in Homs \cup {None}, ps \in {<<>>, <<Paradigm("1", "para")>>} }
    \cup
    { [name |-> "gam", hom |-> None, paradigms |-> <<Paradigm("1", "para"), p>>] :
        p \in {Paradigm(Unknown, "para"), Paradigm("1", Unknown)} }

\* vclass = ENUM['vclass']; voice = ENUM['voice']; root_map = {}
AddRootsBegin ==
    /\ IF Has({"vclass", "voice"}) THEN Enter("add_roots") ELSE EnterRaise("add_roots")
    /\ root_map' = IF Has({"vclass", "voice"}) THEN EmptyMap ELSE root_map
    /\ UNCHANGED <<ENUM, store, input, pass, prefix_map, skipped, i, buf, out, execs>>

\* One root: the Root row is added and flushed, its paradigms are added, each
\* after the lookup of its vclass and voice, and root_map[(name, hom)] is set.
AddRootsStep ==
    /\ InLoop("add_roots")
    /\ \E item \in RootRecords :
        /\ Reads("ROOTS", item)
        /\ LET id == NewId("root")
               ps == item.paradigms
               ok(j) == ps[j][1] \in DOMAIN ENUM["vclass"] /\ ps[j][2] \in DOMAIN ENUM["voice"]
               bad == {j \in 1..Len(ps) : ~ok(j)}
               n == IF bad = {} THEN Len(ps) ELSE Min(bad) - 1
           IN /\ sess' = [sess EXCEPT
                    !["root"] = Append(@, [src |-> Src("ROOTS", 0), id |-> id,
                                           name |-> item.name]),
                    !["paradigm"] = @ \o
                        [j \in 1..n |->
                            [src |-> Src("ROOTS", j), id |-> NewId("paradigm") + j - 1,
                             root_id |-> id,
                             vclass_id |-> ENUM["vclass"][ps[j][1]],
                             voice_id |-> ENUM["voice"][ps[j][2]]]]]
              /\ IF bad = {}
                 THEN root_map' = Put(root_map, <<item.name, item.hom>>, id) /\ Continue
                 ELSE Raise /\ UNCHANGED <<pos, root_map>>
    /\ db' = Flush(db, sess')
    /\ UNCHANGED <<ENUM, schema, pass, prefix_map, skipped, i, buf, out, execs>>

\* A return of add_roots without the commit.
AddRootsEndNoCommit ==
    /\ InLoop("add_roots")
    /\ AtEnd("ROOTS")
    /\ Return("add_roots")
    /\ UNCHANGED <<ENUM, store, pass, locals>>

\* session.commit(); session.close(); return root_map
AddRootsEnd ==
    /\ InLoop("add_roots")
    /\ AtEnd("ROOTS")
    /\ db' = Committed(db, sess)
    /\ sess' = NoRows
    /\ Return("add_roots")
    /\ UNCHANGED <<ENUM, schema, pass, locals>>

\* -------------------------------------------------------------- add_verbs

\* The hom field of a line of a tabular file: empty, a homonym index, or
\* not there at all (a short line).
HomFields == {[hom |-> h] : h \in Homs \cup {""}} \cup {EmptyMap}

\* f, with the fields of g added.
Merge(f, g) == [c \in (DOMAIN f) \cup (DOMAIN g) |-> IF c \in DOMAIN g THEN g[c] ELSE f[c]]

VerbHeader == {"name", "root", "hom", "vclass", "person", "number", "mode", "voice"}

\* The lines of the verbs file.
VerbRecords ==
    { Merge([name |-> "gacchati", root |-> "gam", vclass |-> "1", person |-> "3",
             number |-> "s", mode |-> "pres", voice |-> "para"], h) : h \in HomFields }
    \cup
    { [name |-> "gacchati", root |-> "gam", vclass |-> c, person |-> e[1],
       number |-> e[2], mode |-> e[3], voice |-> e[4]] :
        c \in {"", Unknown}, e \in {<<"3", "s", "pres", "para">>} }
    \cup
    { [name |-> "gacchati", root |-> "gam", vclass |-> "1", person |-> e[1],
       number |-> e[2], mode |-> e[3], voice |-> e[4]] :
        e \in {<<Unknown, "s", "pres", "para">>, <<"3", Unknown, "pres", "para">>,
               <<"3", "s", Unknown, "para">>, <<"3", "s", "pres", Unknown>>} }
    \cup
    { [name |-> "gacchati", root |-> "gam", hom |-> "", vclass |-> "1", person |-> "3",
       number |-> "s", mode |-> Unknown, voice |-> "para"] }

\* A root lookup whose KeyError is not caught.
SkipRaises(key) ==
    /\ Raise
    /\ UNCHANGED <<pos, db, sess, i, skipped>>

\* A report of the rows added instead of the keys skipped.
ReportRows(f) == <<f, i>>

\* except KeyError: skipped.add((row['root'], row['hom'])); continue
Skip(key) ==
    /\ skipped' = skipped \cup {key}
    /\ Continue
    /\ UNCHANGED <<db, sess, i>>

\* print 'Skipped', len(skipped), 'roots.', as printed by stage f.
Report(f) == <<f, Cardinality(skipped)>>

\* A stage called without a root map: root_map=None, made {} by the stage.
rootsDefault == EmptyMap

\* add_verbal: roots = add_roots(ctx), the argument of add_verbs,
\* add_participle_stems and add_verbal_indeclinables.
roots == root_map

\* vclass = ENUM['vclass'] ... voice = ENUM['voice']; skipped = set(); i = 0
AddVerbsBegin ==
    /\ IF Has({"vclass", "person", "number", "mode", "voice"})
       THEN Enter("add_verbs") ELSE EnterRaise("add_verbs")
    /\ skipped' = {}
    /\ i' = 0
    /\ UNCHANGED <<ENUM, store, input, pass, root_map, prefix_map, buf, out, execs>>

\* The enum lookups that build the data of a verb row all succeed.
VerbEnumsKnown(row) ==
    /\ row.vclass \in {"", None} \/ row.vclass \in DOMAIN ENUM["vclass"]
    /\ row.person \in DOMAIN ENUM["person"]
    /\ row.number \in DOMAIN ENUM["number"]
    /\ row.mode \in DOMAIN ENUM["mode"]
    /\ row.voice \in DOMAIN ENUM["voice"]

\* A verb row that does not get its root.
VerbRowNoRoot(row, root_id) ==
    [src |-> Src("VERBS", 0), id |-> NewId("verb"), name |-> row.name, root_id |-> Null,
     vclass_id |-> IF row.vclass \in {"", None} THEN Null ELSE ENUM["vclass"][row.vclass],
     person_id |-> ENUM["person"][row.person],
     number_id |-> ENUM["number"][row.number],
     mode_id |-> ENUM["mode"][row.mode],
     voice_id |-> ENUM["voice"][row.voice]]

VerbRow(row, root_id) ==
    [src |-> Src("VERBS", 0), id |-> NewId("verb"), name |-> row.name, root_id |-> root_id,
     vclass_id |-> IF row.vclass \in {"", None} THEN Null ELSE ENUM["vclass"][row.vclass],
     person_id |-> ENUM["person"][row.person],
     number_id |-> ENUM["number"][row.number],
     mode_id |-> ENUM["mode"][row.mode],
     voice_id |-> ENUM["voice"][row.voice]]

\* One line of the verbs file: a root key that root_map lacks puts the key
\* into skipped and goes on; otherwise the row is built and added, and every
\* VerbCommitEvery-th added row commits the session.
AddVerbsStep ==
    /\ InLoop("add_verbs")
    /\ \E line \in VerbRecords :
        /\ Reads("VERBS", line)
        /\ LET row == read_csv(VerbHeader, line)
               key == <<row.root, row.hom>>
           IN IF key \notin DOMAIN roots
              THEN Skip(key)
              ELSE IF ~VerbEnumsKnown(row)
              THEN /\ Raise
                   /\ UNCHANGED <<pos, db, sess, i, skipped>>
              ELSE /\ i' = i + 1
                   /\ IF (i + 1) % VerbCommitEvery = 0
                      THEN /\ db' = Committed(db, Add(sess, "verb", VerbRow(row, roots[key])))
                           /\ sess' = NoRows
                      ELSE /\ sess' = Add(sess, "verb", VerbRow(row, roots[key]))
                           /\ UNCHANGED db
                   /\ Continue
                   /\ UNCHANGED skipped
    /\ UNCHANGED <<ENUM, schema, pass, root_map, prefix_map, buf, out, execs>>

\* session.commit(); session.close(); print 'Skipped', len(skipped), 'roots.'
AddVerbsEnd ==
    /\ InLoop("add_verbs")
    /\ AtEnd("VERBS")
    /\ db' = Committed(db, sess)
    /\ sess' = NoRows
    /\ out' = Append(out, Report("add_verbs"))
    /\ skipped' = {}
    /\ i' = 0
    /\ Return("add_verbs")
    /\ UNCHANGED <<ENUM, schema, pass, root_map, prefix_map, buf, execs>>

\* --------------------------------------------------- add_participle_stems

ParticipleHeader == {"name", "root", "hom", "mode", "voice"}

\* The lines of the participle stems file.
ParticipleRecords ==
    { Merge([name |-> "gacchat", root |-> "gam", mode |-> e[1], voice |-> e[2]], h) :
        h \in HomFields,
        e \in {<<"pres", "para">>, <<Unknown, "para">>, <<"pres", Unknown>>} }

\* root_map = root_map or {}; mode = ENUM['mode']; voice = ENUM['voice'];
\* skipped = set(); i = 0
AddParticipleStemsBegin ==
    /\ IF Has({"mode", "voice"})
       THEN Enter("add_participle_stems") ELSE EnterRaise("add_participle_stems")
    /\ skipped' = {}
    /\ i' = 0
    /\ UNCHANGED <<ENUM, store, input, pass, root_map, prefix_map, buf, out, execs>>

ParticipleRow(row, root_id) ==
    [src |-> Src("PARTICIPLE_STEMS", 0), id |-> NewId("participle_stem"),
     name |-> row.name, root_id |-> root_id,
     mode_id |-> ENUM["mode"][row.mode], voice_id |-> ENUM["voice"][row.voice]]

\* One line of the participle stems file, as in add_verbs.
AddParticipleStemsStep ==
    /\ InLoop("add_participle_stems")
    /\ \E line \in ParticipleRecords :
        /\ Reads("PARTICIPLE_STEMS", line)
        /\ LET row == read_csv(ParticipleHeader, line)
               key == <<row.root, row.hom>>
           IN IF key \notin DOMAIN roots
              THEN Skip(key)
              ELSE IF ~(row.mode \in DOMAIN ENUM["mode"] /\ row.voice \in DOMAIN ENUM["voice"])
              THEN /\ Raise
                   /\ UNCHANGED <<pos, db, sess, i, skipped>>
              ELSE /\ i' = i + 1
                   /\ IF (i + 1) % PartCommitEvery = 0
                      THEN /\ db' = Committed(db, Add(sess, "participle_stem",
                                                      ParticipleRow(row, roots[key])))
                           /\ sess' = NoRows
                      ELSE /\ sess' = Add(sess, "participle_stem", ParticipleRow(row, roots[key]))
                           /\ UNCHANGED db
                   /\ Continue
                   /\ UNCHANGED skipped
    /\ UNCHANGED <<ENUM, schema, pass, root_map, prefix_map, buf, out, execs>>

\* session.commit(); session.close(); print 'Skipped', len(skipped), 'roots.'
AddParticipleStemsEnd ==
    /\ InLoop("add_participle_stems")
    /\ AtEnd("PARTICIPLE_STEMS")
    /\ db' = Committed(db, sess)
    /\ sess' = NoRows
    /\ out' = Append(out, Report("add_participle_stems"))
    /\ skipped' = {}
    /\ i' = 0
    /\ Return("add_participle_stems")
    /\ UNCHANGED <<ENUM, schema, pass, root_map, prefix_map, buf, execs>>

\* ----------------------------------------------- add_verbal_indeclinables

IndeclinableHeader == {"name", "root", "hom"}

\* The lines of the gerunds file and of the infinitives file.
VerbalIndeclinableRecords ==
    { Merge([name |-> "gantum", root |-> "gam"], h) : h \in HomFields }

\* items: the file key and the class (its table) of each of the two loops.
IndeclinableItems == << <<"GERUNDS", "gerund">>, <<"INFINITIVES", "infinitive">> >>

\* root_map = root_map or {}; skipped = set()
AddVerbalIndeclinablesBegin ==
    /\ Enter("add_verbal_indeclinables")
    /\ skipped' = {}
    /\ pass' = 1
    /\ UNCHANGED <<ENUM, store, input, root_map, prefix_map, i, buf, out, execs>>

IndeclinableRow(row, root_id, t) ==
    [src |-> Src(IndeclinableItems[pass][1], 0), id |-> NewId(t), name |-> row.name,
     root_id |-> root_id]

\* One line of the gerunds file (pass 1) or the infinitives file (pass 2).
AddVerbalIndeclinablesStep ==
    /\ InLoop("add_verbal_indeclinables")
    /\ \E line \in VerbalIndeclinableRecords :
        /\ Reads(IndeclinableItems[pass][1], line)
        /\ LET row == read_csv(IndeclinableHeader, line)
               key == <<row.root, row.hom>>
               t == IndeclinableItems[pass][2]
           IN IF key \notin DOMAIN roots
              THEN Skip(key)
              ELSE /\ sess' = Add(sess, t, IndeclinableRow(row, roots[key], t))
                   /\ Continue
                   /\ UNCHANGED <<db, i, skipped>>
    /\ UNCHANGED <<ENUM, schema, pass, root_map, prefix_map, buf, out, execs>>

\* The gerunds file is at its end: the loop over items goes on to the
\* infinitives file.
AddVerbalIndeclinablesNext ==
    /\ InLoop("add_verbal_indeclinables") /\ pass = 1
    /\ AtEnd("GERUNDS")
    /\ pass' = 2
    /\ pos' = 1
    /\ UNCHANGED <<ctl, ENUM, store, locals>>

\* An add_verbal that goes on to add_prefixed_roots, which opens its file.
add_verbal_goes_on == [calls |-> <<"add_prefixed_roots">>, opened |-> {"PREFIXED_ROOTS"}]

\* What add_verbal does after add_verbal_indeclinables: it returns, so the
\* call of add_prefixed_roots below the return is not reached; no call is
\* made and no file is opened.
add_verbal_return == [calls |-> <<>>, opened |-> {}]

\* session.commit(): the function ends without close and without a report;
\* add_verbal returns after it, and its roots and prefixes go.
AddVerbalIndeclinablesEnd ==
    /\ InLoop("add_verbal_indeclinables") /\ pass = 2
    /\ pos > Len(files["INFINITIVES"])
    /\ known' = known \cup {"INFINITIVES"} \cup add_verbal_return.opened
    /\ UNCHANGED <<files, size>>
    /\ db' = Committed(db, sess)
    /\ sess' = NoRows
    /\ pass' = 0
    /\ skipped' = {}
    /\ root_map' = EmptyMap
    /\ prefix_map' = EmptyMap
    /\ calls' = calls \o add_verbal_return.calls
    /\ fn' = NextFn("add_verbal_indeclinables")
    /\ inside' = FALSE
    /\ pos' = 1
    /\ UNCHANGED <<err, proc>>
    /\ UNCHANGED <<ENUM, schema, i, buf, out, execs>>

\* ---------------------------------------------------- add_nominal_endings

NominalEnding(g, c, n) == [name |-> "as", gender |-> g, case |-> c, number |-> n]

\* The groups of the nominal endings file: a stem type and its endings, each
\* with a gender and, or not (None: row.get finds no such key), a case and a
\* number.
NominalEndingRecords ==
    { [stem |-> "a", endings |-> <<e>>] :
        e \in {NominalEnding("m", "1", "s"), NominalEnding("m", None, None),
               NominalEnding("m", Unknown, "s"), NominalEnding("m", "1", Unknown),
               NominalEnding(Unknown, "1", "s")} }

\* dict.get(key): the value, or None for a key the dict lacks.
Get(m, k) == IF k \in DOMAIN m THEN m[k] ELSE Null

\* gender = ENUM['gender']; case = ENUM['case']; number = ENUM['number']
AddNominalEndingsBegin ==
    /\ IF Has({"gender", "case", "number"})
       THEN Enter("add_nominal_endings") ELSE EnterRaise("add_nominal_endings")
    /\ UNCHANGED <<ENUM, store, input, pass, locals>>

\* One group: every ending's gender is looked up, its case and number are
\* fetched with get, and the ending is added and flushed.
AddNominalEndingsStep ==
    /\ InLoop("add_nominal_endings")
    /\ \E group \in NominalEndingRecords :
        /\ Reads("NOMINAL_ENDINGS", group)
        /\ LET rows == group.endings
               bad == {j \in 1..Len(rows) : rows[j].gender \notin DOMAIN ENUM["gender"]}
               n == IF bad = {} THEN Len(rows) ELSE Min(bad) - 1
           IN /\ sess' = [sess EXCEPT !["nominal_ending"] = @ \o
                            [j \in 1..n |->
                                [src |-> Src("NOMINAL_ENDINGS", j),
                                 id |-> NewId("nominal_ending") + j - 1,
                                 name |-> rows[j].name,
                                 stem_type |-> group.stem,
                                 gender_id |-> ENUM["gender"][rows[j].gender],
                                 case_id |-> Get(ENUM["case"], rows[j].case),
                                 number_id |-> Get(ENUM["number"], rows[j].number),
                                 compounded |-> FALSE]]]
              /\ IF bad = {} THEN Continue ELSE Raise /\ UNCHANGED pos
    /\ db' = Flush(db, sess')
    /\ UNCHANGED <<ENUM, schema, pass, locals>>

AddNominalEndingsEnd ==
    /\ InLoop("add_nominal_endings")
    /\ AtEnd("NOMINAL_ENDINGS")
    /\ db' = Committed(db, sess)
    /\ sess' = NoRows
    /\ Return("add_nominal_endings")
    /\ UNCHANGED <<ENUM, schema, pass, locals>>

\* ---------------------------------------------------------- add_noun_stems

\* The id of the Tag attribute key.
TagId(key) == CHOOSE j \in 1..Len(TagKeys) : TagKeys[j] = key

NounStemHeader == {"name", "genders"}

\* The lines of the noun stems file.
NounStemRecords == { [name |-> "deva", genders |-> g] : g \in {"mf", Unknown} }

\* An end of stage that inserts the buffer whatever it holds.
TruthyAlways(b) == TRUE

\* if buf: a list is true unless it is empty.
Truthy(b) == b # <<>>

\* A bulk insert as the connection sees it: the stage and the number of rows.
Issued(f, rows) == <<f, Len(rows)>>

\* conn.execute(ins, buf): one bulk insert of the buffer, on a connection of
\* its own, which commits it.
Execute(d, t, rows) ==
    [d EXCEPT ![t] = @ \o [j \in 1..Len(rows) |-> [id |-> Len(d[t]) + Len(sess[t]) + j] @@ rows[j]]]

\* gender_group = ENUM['gender_group']; buf = []; i = 0
AddNounStemsBegin ==
    /\ IF Has({"gender_group"}) THEN Enter("add_noun_stems") ELSE EnterRaise("add_noun_stems")
    /\ buf' = <<>>
    /\ i' = 0
    /\ UNCHANGED <<ENUM, store, input, pass, root_map, prefix_map, skipped, out, execs>>

\* One line: the row is appended to buf, and every BatchSize-th row the
\* buffer is inserted and emptied.
AddNounStemsStep ==
    /\ InLoop("add_noun_stems")
    /\ \E line \in NounStemRecords :
        /\ Reads("NOUN_STEMS", line)
        /\ LET noun == read_csv(NounStemHeader, line)
           IN IF noun.genders \notin DOMAIN ENUM["gender_group"]
              THEN Raise /\ UNCHANGED <<pos, db, buf, i, execs>>
              ELSE LET row == [src |-> Src("NOUN_STEMS", 0), name |-> noun.name,
                               pos_id |-> TagId("NOUN"),
                               genders_id |-> ENUM["gender_group"][noun.genders]]
                   IN /\ i' = i + 1
                      /\ IF (i + 1) % BatchSize = 0
                         THEN /\ db' = Execute(db, "noun_stem", Append(buf, row))
                              /\ execs' = Append(execs, Issued("add_noun_stems", Append(buf, row)))
                              /\ buf' = <<>>
                         ELSE /\ buf' = Append(buf, row)
                              /\ UNCHANGED <<db, execs>>
                      /\ Continue
    /\ UNCHANGED <<ENUM, schema, sess, pass, root_map, prefix_map, skipped, out>>

\* if buf: conn.execute(ins, buf)
AddNounStemsEnd ==
    /\ InLoop("add_noun_stems")
    /\ AtEnd("NOUN_STEMS")
    /\ IF Truthy(buf)
       THEN /\ db' = Execute(db, "noun_stem", buf)
            /\ execs' = Append(execs, Issued("add_noun_stems", buf))
       ELSE UNCHANGED <<db, execs>>
    /\ buf' = <<>>
    /\ i' = 0
    /\ Return("add_noun_stems")
    /\ UNCHANGED <<ENUM, schema, sess, pass, root_map, prefix_map, skipped, out>>

\* ------------------------------------------------------ add_irregular_nouns

Form(g, c, n) == [name |-> "form", gender |-> g, case |-> c, number |-> n]

\* The forms of an irregular stem: none, one, or a second one with a gender,
\* case or number that is no enum value.
FormChoices ==
    { <<>>, <<Form("m", "1", "s")>>,
      <<Form("m", "1", "s"), Form(Unknown, "1", "s")>>,
      <<Form("m", "1", "s"), Form("m", Unknown, "s")>>,
      <<Form("m", "1", "s"), Form("m", "1", Unknown)>> }

\* The irregular nouns of the file, and likewise the pronouns.
IrregularNounRecords ==
    { [name |-> "pathin", genders |-> "mf", complete |-> TRUE, forms |-> f] : f \in FormChoices }
    \cup { [name |-> "pathin", genders |-> Unknown, complete |-> TRUE, forms |-> <<>>] }

\* The lookups of gender, case and number of a form all succeed.
FormKnown(form) ==
    /\ form.gender \in DOMAIN ENUM["gender"]
    /\ form.case \in DOMAIN ENUM["case"]
    /\ form.number \in DOMAIN ENUM["number"]

\* The forms built before the first form with a failing lookup (all, if none).
FormsBuilt(forms) ==
    LET bad == {j \in 1..Len(forms) : ~FormKnown(forms[j])}
    IN IF bad = {} THEN Len(forms) ELSE Min(bad) - 1

\* The rows of table t for the first n forms of the stem of id stem_id, of a
\* record of file k.
FormRows(k, t, forms, n, stem_id) ==
    [j \in 1..n |->
        [src |-> Src(k, j), id |-> NewId(t) + j - 1, stem_id |-> stem_id,
         name |-> forms[j].name,
         gender_id |-> ENUM["gender"][forms[j].gender],
         case_id |-> ENUM["case"][forms[j].case],
         number_id |-> ENUM["number"][forms[j].number]]]

AddIrregularNounsBegin ==
    /\ IF Has({"gender_group", "gender", "case", "number"})
       THEN Enter("add_irregular_nouns") ELSE EnterRaise("add_irregular_nouns")
    /\ UNCHANGED <<ENUM, store, input, pass, locals>>

\* One noun: after the lookup of its genders the stem is added and flushed,
\* then its StemIrregularity, then every form after its three lookups.
AddIrregularNounsStep ==
    /\ InLoop("add_irregular_nouns")
    /\ \E noun \in IrregularNounRecords :
        /\ Reads("IRREGULAR_NOUNS", noun)
        /\ IF noun.genders \notin DOMAIN ENUM["gender_group"]
           THEN Raise /\ UNCHANGED <<pos, sess>>
           ELSE LET id == NewId("noun_stem")
                    n == FormsBuilt(noun.forms)
                IN /\ sess' = [sess EXCEPT
                        !["noun_stem"] = Append(@,
                            [src |-> Src("IRREGULAR_NOUNS", 0), id |-> id, name |-> noun.name,
                             genders_id |-> ENUM["gender_group"][noun.genders]]),
                        !["stem_irregularity"] = Append(@,
                            [src |-> Src("IRREGULAR_NOUNS", 0), id |-> NewId("stem_irregularity"),
                             stem |-> <<"noun_stem", id>>, fully_described |-> noun.complete]),
                        !["noun"] = @ \o FormRows("IRREGULAR_NOUNS", "noun", noun.forms, n, id)]
                   /\ IF n = Len(noun.forms) THEN Continue ELSE Raise /\ UNCHANGED pos
    /\ db' = Flush(db, sess')
    /\ UNCHANGED <<ENUM, schema, pass, locals>>

AddIrregularNounsEnd ==
    /\ InLoop("add_irregular_nouns")
    /\ AtEnd("IRREGULAR_NOUNS")
    /\ db' = Committed(db, sess)
    /\ sess' = NoRows
    /\ Return("add_irregular_nouns")
    /\ UNCHANGED <<ENUM, schema, pass, locals>>

\* ----------------------------------------------------- add_adjective_stems

AdjectiveStemHeader == {"name"}

AdjectiveStemRecords == { [name |-> "sundara"] }

\* buf = []; i = 0
AddAdjectiveStemsBegin ==
    /\ Enter("add_adjective_stems")
    /\ buf' = <<>>
    /\ i' = 0
    /\ UNCHANGED <<ENUM, store, input, pass, root_map, prefix_map, skipped, out, execs>>

AddAdjectiveStemsStep ==
    /\ InLoop("add_adjective_stems")
    /\ \E line \in AdjectiveStemRecords :
        /\ Reads("ADJECTIVE_STEMS", line)
        /\ LET adj == read_csv(AdjectiveStemHeader, line)
               row == [src |-> Src("ADJECTIVE_STEMS", 0), name |-> adj.name,
                       pos_id |-> TagId("ADJECTIVE")]
           IN /\ i' = i + 1
              /\ IF (i + 1) % BatchSize = 0
                 THEN /\ db' = Execute(db, "adjective_stem", Append(buf, row))
                      /\ execs' = Append(execs, Issued("add_adjective_stems", Append(buf, row)))
                      /\ buf' = <<>>
                 ELSE /\ buf' = Append(buf, row)
                      /\ UNCHANGED <<db, execs>>
    /\ Continue
    /\ UNCHANGED <<ENUM, schema, sess, pass, root_map, prefix_map, skipped, out>>

AddAdjectiveStemsEnd ==
    /\ InLoop("add_adjective_stems")
    /\ AtEnd("ADJECTIVE_STEMS")
    /\ IF Truthy(buf)
       THEN /\ db' = Execute(db, "adjective_stem", buf)
            /\ execs' = Append(execs, Issued("add_adjective_stems", buf))
       ELSE UNCHANGED <<db, execs>>
    /\ buf' = <<>>
    /\ i' = 0
    /\ Return("add_adjective_stems")
    /\ UNCHANGED <<ENUM, schema, sess, pass, root_map, prefix_map, skipped, out>>

\* ------------------------------------------------- add_irregular_adjectives

IrregularAdjectiveRecords ==
    { [name |-> "mahat", complete |-> FALSE, forms |-> f] : f \in FormChoices }

AddIrregularAdjectivesBegin ==
    /\ IF Has({"gender", "case", "number"})
       THEN Enter("add_irregular_adjectives") ELSE EnterRaise("add_irregular_adjectives")
    /\ UNCHANGED <<ENUM, store, input, pass, locals>>

\* One adjective: the stem is added and flushed, then its StemIrregularity,
\* then every form is added (not flushed) after its three lookups.
AddIrregularAdjectivesStep ==
    /\ InLoop("add_irregular_adjectives")
    /\ \E adj \in IrregularAdjectiveRecords :
        /\ Reads("IRREGULAR_ADJECTIVES", adj)
        /\ LET id == NewId("adjective_stem")
               n == FormsBuilt(adj.forms)
           IN /\ sess' = [sess EXCEPT
                    !["adjective_stem"] = Append(@,
                        [src |-> Src("IRREGULAR_ADJECTIVES", 0), id |-> id, name |-> adj.name]),
                    !["stem_irregularity"] = Append(@,
                        [src |-> Src("IRREGULAR_ADJECTIVES", 0), id |-> NewId("stem_irregularity"),
                         stem |-> <<"adjective_stem", id>>, fully_described |-> adj.complete]),
                    !["adjective"] = @ \o FormRows("IRREGULAR_ADJECTIVES", "adjective",
                                                   adj.forms, n, id)]
              /\ IF n = Len(adj.forms) THEN Continue ELSE Raise /\ UNCHANGED pos
    /\ db' = Flush(db, sess')
    /\ UNCHANGED <<ENUM, schema, pass, locals>>

AddIrregularAdjectivesEnd ==
    /\ InLoop("add_irregular_adjectives")
    /\ AtEnd("IRREGULAR_ADJECTIVES")
    /\ db' = Committed(db, sess)
    /\ sess' = NoRows
    /\ Return("add_irregular_adjectives")
    /\ UNCHANGED <<ENUM, schema, pass, locals>>

\* ------------------------------------------------------------ add_pronouns

PronounRecords ==
    { [name |-> "tad", genders |-> "mf", forms |-> f] : f \in FormChoices }
    \cup { [name |-> "tad", genders |-> Unknown, forms |-> <<>>] }

AddPronounsBegin ==
    /\ IF Has({"gender_group", "gender", "case", "number"})
       THEN Enter("add_pronouns") ELSE EnterRaise("add_pronouns")
    /\ UNCHANGED <<ENUM, store, input, pass, locals>>

\* One pronoun: after the lookup of its genders the stem is added and
\* flushed, then every form after its three lookups.
AddPronounsStep ==
    /\ InLoop("add_pronouns")
    /\ \E pronoun \in PronounRecords :
        /\ Reads("PRONOUNS", pronoun)
        /\ IF pronoun.genders \notin DOMAIN ENUM["gender_group"]
           THEN Raise /\ UNCHANGED <<pos, sess>>
           ELSE LET id == NewId("pronoun_stem")
                    n == FormsBuilt(pronoun.forms)
                IN /\ sess' = [sess EXCEPT
                        !["pronoun_stem"] = Append(@,
                            [src |-> Src("PRONOUNS", 0), id |-> id, name |-> pronoun.name,
                             genders_id |-> ENUM["gender_group"][pronoun.genders]]),
                        !["pronoun"] = @ \o FormRows("PRONOUNS", "pronoun", pronoun.forms, n, id)]
                   /\ IF n = Len(pronoun.forms) THEN Continue ELSE Raise /\ UNCHANGED pos
    /\ db' = Flush(db, sess')
    /\ UNCHANGED <<ENUM, schema, pass, locals>>

\* session.commit(); session.close(); add_nominals and run return.
AddPronounsEnd ==
    /\ InLoop("add_pronouns")
    /\ AtEnd("PRONOUNS")
    /\ db' = Committed(db, sess)
    /\ sess' = NoRows
    /\ Return("add_pronouns")
    /\ UNCHANGED <<ENUM, schema, pass, locals>>

\* The caller calls run again, in the same process and on the same files.
Rerun ==
    /\ err = None /\ fn = "done"
    /\ runs < MaxRuns
    /\ size <= MaxRerunInput
    /\ runs' = runs + 1
    /\ seen' = Append(seen, [t \in Tables |-> Len(db[t])])
    /\ fn' = "drop_all"
    /\ calls' = <<>>
    /\ out' = <<>>
    /\ execs' = <<>>
    /\ UNCHANGED <<ctx, new, inside, err, ENUM, store, input, pos, pass, root_map, prefix_map,
                   skipped, i, buf, registry, builds, ret>>

\* run(ctx): one step of drop_all, create_all or a stage.
run ==
    \/ DropAll
    \/ CreateAll
    \/ AddTags
    \/ AddEnumsBegin
    \/ AddEnumsFirst
    \/ AddEnumsCommit
    \/ AddEnumsSecond
    \/ AddEnumsEnd
    \/ AddSandhiBegin
    \/ AddSandhiStep
    \/ AddSandhiEnd
    \/ AddIndeclinablesBegin
    \/ AddIndeclinablesStep
    \/ AddIndeclinablesEnd
    \/ AddVerbPrefixesBegin
    \/ AddVerbPrefixesStep
    \/ AddVerbPrefixesEnd
    \/ AddVerbEndingsBegin
    \/ AddVerbEndingsStep
    \/ AddVerbEndingsEnd
    \/ AddRootsBegin
    \/ AddRootsStep
    \/ AddRootsEnd
    \/ AddVerbsBegin
    \/ AddVerbsStep
    \/ AddVerbsEnd
    \/ AddParticipleStemsBegin
    \/ AddParticipleStemsStep
    \/ AddParticipleStemsEnd
    \/ AddVerbalIndeclinablesBegin
    \/ AddVerbalIndeclinablesStep
    \/ AddVerbalIndeclinablesNext
    \/ AddVerbalIndeclinablesEnd
    \/ AddNominalEndingsBegin
    \/ AddNominalEndingsStep
    \/ AddNominalEndingsEnd
    \/ AddNounStemsBegin
    \/ AddNounStemsStep
    \/ AddNounStemsEnd
    \/ AddIrregularNounsBegin
    \/ AddIrregularNounsStep
    \/ AddIrregularNounsEnd
    \/ AddAdjectiveStemsBegin
    \/ AddAdjectiveStemsStep
    \/ AddAdjectiveStemsEnd
    \/ AddIrregularAdjectivesBegin
    \/ AddIrregularAdjectivesStep
    \/ AddIrregularAdjectivesEnd
    \/ AddPronounsBegin
    \/ AddPronounsStep
    \/ AddPronounsEnd

Next ==
    \/ run
    \/ Rerun

Spec == Init /\ [][Next]_vars

\* A call of the Context constructor, before any run.
InitCtx ==
    /\ new \in Calls
    /\ ctx = [config |-> EmptyMap, engine |-> FALSE]
    /\ fn = "drop_all" /\ inside = FALSE /\ err = None /\ runs = 1 /\ seen = <<>>
    /\ calls = <<>>
    /\ ENUM = EmptyMap
    /\ schema = FALSE /\ db = NoRows /\ sess = NoRows
    /\ files = [k \in FileKeys |->
                    IF k = "ENUMS" THEN EnumDoc(FALSE, StdGroups, {}) ELSE <<>>]
    /\ known = {"ENUMS"} /\ size = 0
    /\ pos = 1 /\ pass = 0
    /\ root_map = EmptyMap /\ prefix_map = EmptyMap
    /\ skipped = {} /\ i = 0 /\ buf = <<>> /\ out = <<>> /\ execs = <<>>
    /\ registry = Unset /\ builds = 0 /\ ret = NoAccess

NextCtx ==
    \/ CtxLoad
    \/ CtxCopy
    \/ CtxDefault
    \/ CtxConnect

SpecCtx == InitCtx /\ [][NextCtx]_vars

\* The items of a category in which the name of one item is the
\* abbreviation of another.
ClashItems == <<Item("nominative", "1"), Item("1", "2")>>

\* The standard document with such a Case category.
ClashDoc ==
    LET d == EnumDoc(FALSE, StdGroups, {})
    IN [j \in 1..Len(d) |-> IF d[j].name = "Case" THEN Entry("Case", ClashItems) ELSE d[j]]

\* A process that builds the enumerated data by calling drop_all,
\* create_all, add_tags and add_enums as run does, and reads the registry
\* of its Context before, between and after the calls.
InitReg ==
    /\ fn = "drop_all" /\ inside = FALSE /\ err = None /\ runs = 1 /\ seen = <<>>
    /\ ctx = StdCtx /\ new = StdNew
    /\ calls = <<>>
    /\ ENUM = EmptyMap
    /\ \/ schema = FALSE /\ db = NoRows
       \/ schema = TRUE /\ db = Leftover
    /\ sess = NoRows
    /\ \/ \E first \in BOOLEAN, g \in GroupChoices,
             miss \in SUBSET (Range(EnumClasses) \cup {"GenderGroup"}) :
            /\ DocSize(first, g, miss) <= MaxDoc
            /\ size = DocSize(first, g, miss)
            /\ files = [k \in FileKeys |-> IF k = "ENUMS" THEN EnumDoc(first, g, miss) ELSE <<>>]
       \/ /\ size = 1
          /\ files = [k \in FileKeys |-> IF k = "ENUMS" THEN ClashDoc ELSE <<>>]
    /\ known = {"ENUMS"}
    /\ pos = 1 /\ pass = 0
    /\ root_map = EmptyMap /\ prefix_map = EmptyMap
    /\ skipped = {} /\ i = 0 /\ buf = <<>> /\ out = <<>> /\ execs = <<>>
    /\ registry = Unset /\ builds = 0 /\ ret = NoAccess

NextReg ==
    \/ DropAll
    \/ CreateAll
    \/ AddTags
    \/ AddEnumsBegin
    \/ AddEnumsFirst
    \/ AddEnumsCommit
    \/ AddEnumsSecond
    \/ AddEnumsEnd
    \/ enum_id
    \/ enum_abbr
    \/ gender_set

SpecReg == InitReg /\ [][NextReg]_vars

\* The document of the earlier run of the process: the standard one.
EarlierDoc == EnumDoc(FALSE, StdGroups, {})

\* The rows the earlier run gave the items of entry p of its document.
EarlierRows(p) ==
    [j \in 1..Len(EarlierDoc[p].items) |->
        [src |-> <<"ENUMS", p, j>>, id |-> j, name |-> EarlierDoc[p].items[j].name,
         abbr |-> EarlierDoc[p].items[j].abbr]]

\* The entry of the earlier document for table t.
EarlierEntry(t) == CHOOSE p \in 1..Len(EarlierDoc) : TableName(EarlierDoc[p].name) = t

\* setup.ENUM as the earlier run left it: every category of its document,
\* with the ids of that run.
EarlierENUM ==
    [t \in EnumTables \cup {"gender_group"} |-> EnumMap(EmptyMap, EarlierRows(EarlierEntry(t)), 1)]

\* The store as the earlier run left it: its tags, enums and gender groups.
EarlierDb ==
    [t \in Tables |->
        IF t \in EnumTables THEN EarlierRows(EarlierEntry(t))
        ELSE IF t = "gender_group"
        THEN [j \in 1..Len(StdGroups) |->
                [src |-> <<"ENUMS", EarlierEntry(t), j>>, id |-> j,
                 name |-> StdGroups[j].name, abbr |-> StdGroups[j].abbr,
                 members |-> {EarlierENUM["gender"][x] : x \in Range(StdGroups[j].members)}]]
        ELSE IF t = "tag"
        THEN [j \in 1..Len(TagKeys) |-> [src |-> <<"Tag", 0, j>>, id |-> j, name |-> TagKeys[j]]]
        ELSE <<>>]

\* A process in which run has finished once, on the standard enum document
\* and empty files, and is called again after the enum document has lost
\* categories: ENUM and the store are as the first run left them.
InitStale ==
    /\ fn = "drop_all" /\ inside = FALSE /\ err = None
    /\ runs = 2 /\ seen = <<[t \in Tables |-> Len(EarlierDb[t])]>>
    /\ ctx = StdCtx /\ new = StdNew
    /\ calls = <<>>
    /\ ENUM = EarlierENUM
    /\ schema = TRUE /\ db = EarlierDb
    /\ sess = NoRows
    /\ \E first \in BOOLEAN, g \in GroupChoices,
          miss \in SUBSET (Range(EnumClasses) \cup {"GenderGroup"}) :
        /\ miss # {}
        /\ DocSize(first, g, miss) <= MaxInput
        /\ size = DocSize(first, g, miss)
        /\ files = [k \in FileKeys |-> IF k = "ENUMS" THEN EnumDoc(first, g, miss) ELSE <<>>]
    /\ known = {"ENUMS"}
    /\ pos = 1 /\ pass = 0
    /\ root_map = EmptyMap /\ prefix_map = EmptyMap
    /\ skipped = {} /\ i = 0 /\ buf = <<>> /\ out = <<>> /\ execs = <<>>
    /\ registry = Unset /\ builds = 0 /\ ret = NoAccess

SpecStale == InitStale /\ [][run]_vars

\* What the scheduling of the code gives: one thread, which takes its next
\* step as long as there is one.
FairSpec == Spec /\ WF_vars(Next)

\* -------------------------------------------------------------- properties

\* The rows of table t, committed or pending.
Rows(t) == db[t] \o sess[t]

\* The file the loop of stage f reads (in pass p of the stage).
FileOf(f, p) ==
    CASE f = "add_enums" -> "ENUMS"
      [] f = "add_sandhi" -> "SANDHI"
      [] f = "add_indeclinables" -> "INDECLINABLES"
      [] f = "add_verb_prefixes" -> "VERB_PREFIXES"
      [] f = "add_verb_endings" -> "VERB_ENDINGS"
      [] f = "add_roots" -> "ROOTS"
      [] f = "add_verbs" -> "VERBS"
      [] f = "add_participle_stems" -> "PARTICIPLE_STEMS"
      [] f = "add_verbal_indeclinables" -> IF p = 2 THEN "INFINITIVES" ELSE "GERUNDS"
      [] f = "add_nominal_endings" -> "NOMINAL_ENDINGS"
      [] f = "add_noun_stems" -> "NOUN_STEMS"
      [] f = "add_irregular_nouns" -> "IRREGULAR_NOUNS"
      [] f = "add_adjective_stems" -> "ADJECTIVE_STEMS"
      [] f = "add_irregular_adjectives" -> "IRREGULAR_ADJECTIVES"
      [] f = "add_pronouns" -> "PRONOUNS"
      [] OTHER -> None

\* The stages that resolve a root key, the table each fills and the header
\* of the file each reads.
RootStages == {"add_verbs", "add_participle_stems", "add_verbal_indeclinables"}

TableOf(f, p) ==
    CASE f = "add_verbs" -> "verb"
      [] f = "add_participle_stems" -> "participle_stem"
      [] f = "add_verbal_indeclinables" -> IF p = 2 THEN "infinitive" ELSE "gerund"

HeaderOf(f) ==
    CASE f = "add_verbs" -> VerbHeader
      [] f = "add_participle_stems" -> ParticipleHeader
      [] f = "add_verbal_indeclinables" -> IndeclinableHeader

\* This step is stage f handling the record at pos of its file.
Processed(f) == InLoop(f) /\ fn' = f /\ (pos' = pos + 1 \/ err' # None)

\* The line this step reads, and the record read_csv makes of it.
LineRead(f) == files'[FileOf(f, pass)][pos]
RecordRead(f) == read_csv(HeaderOf(f), LineRead(f))

\* The rows this step adds to table t.
Inserted(t) == SubSeq(db'[t] \o sess'[t], Len(Rows(t)) + 1, Len(db'[t] \o sess'[t]))

\* Every enum reference of the record row of stage f is in the enum map.
EnumsResolve(f, row) ==
    CASE f = "add_verbs" -> VerbEnumsKnown(row)
      [] f = "add_participle_stems" ->
            row.mode \in DOMAIN ENUM["mode"] /\ row.voice \in DOMAIN ENUM["voice"]
      [] OTHER -> TRUE

\* C1, as the claim states it: for every record of a root-resolving stage, if
\* its (root, hom) pair is a key of the root map, a row carrying exactly that
\* key's root id is inserted; if not, the pair joins the skipped set and no
\* row is inserted.
C1_EveryHitInserts ==
    [][\A f \in RootStages : Processed(f) =>
        LET row == RecordRead(f)
            key == <<row.root, row.hom>>
            ins == Inserted(TableOf(f, pass))
        IN IF key \in DOMAIN root_map
           THEN /\ Len(ins) = 1
                /\ ins[1].root_id = root_map[key]
                /\ ins[1].name = row.name
           ELSE /\ skipped' = skipped \cup {key}
                /\ \A t \in Tables : Inserted(t) = <<>>]_vars

\* C1, amended: for every record of a root-resolving stage, if its (root,
\* hom) pair is a key of the root map and every enum reference of the record
\* resolves, a row carrying exactly that key's root id is inserted; if the
\* pair is a key and an enum reference does not resolve, the stage fails and
\* no row is inserted; if the pair is no key, it joins the skipped set, no
\* row is inserted and the stage goes on.
C1_RootResolution ==
    [][\A f \in RootStages : Processed(f) =>
        LET row == RecordRead(f)
            key == <<row.root, row.hom>>
            ins == Inserted(TableOf(f, pass))
        IN IF key \in DOMAIN root_map
           THEN IF EnumsResolve(f, row)
                THEN /\ Len(ins) = 1
                     /\ ins[1].root_id = root_map[key]
                     /\ ins[1].name = row.name
                     /\ skipped' = skipped
                     /\ err' = None
                ELSE /\ err' # None
                     /\ \A t \in Tables : Inserted(t) = <<>>
           ELSE /\ skipped' = skipped \cup {key}
                /\ \A t \in Tables : Inserted(t) = <<>>
                /\ err' = None]_vars

\* A verb line whose key the root map holds has been read and its row added.
C1_Witness ==
    /\ fn = "add_verbs" /\ inside /\ err = None /\ pos = 2
    /\ <<files["VERBS"][1].root, read_csv(VerbHeader, files["VERBS"][1]).hom>> \in DOMAIN root_map
    /\ \E r \in Range(Rows("verb")) : r.src = <<"VERBS", 1, 0>> /\ r.root_id = 1

\* C2, as the claim states it: a record of a root-resolving stage whose hom
\* column is empty, for a root registered without homonym index, resolves to
\* that root: its row is inserted with the id registered under (name, None),
\* and it is not skipped.
C2_EmptyHomResolves ==
    [][\A f \in RootStages : Processed(f) =>
        LET line == LineRead(f)
            row == RecordRead(f)
            ins == Inserted(TableOf(f, pass))
        IN ( /\ "hom" \in DOMAIN line
             /\ line.hom = ""
             /\ <<row.root, None>> \in DOMAIN root_map
             /\ EnumsResolve(f, row) )
           => /\ Len(ins) = 1
              /\ ins[1].root_id = root_map[<<row.root, None>>]
              /\ skipped' = skipped]_vars

\* The ending a nominal ending row was built from.
EndingOf(r) == files["NOMINAL_ENDINGS"][r.src[2]].endings[r.src[3]]

\* C3, as the claim states it: no row is written with a null enum id in place
\* of an enum abbreviation its record references; in particular a nominal
\* ending that names a case or a number has the id of that case or number,
\* and a verb line that names a verb class has the id of that class.
C3_NoSilentNull ==
    /\ \A r \in Range(Rows("nominal_ending")) :
        /\ EndingOf(r).case # None => r.case_id # Null
        /\ EndingOf(r).number # None => r.number_id # Null
    /\ \A r \in Range(Rows("verb")) :
        r.src[1] = "VERBS" =>
            (read_csv(VerbHeader, files["VERBS"][r.src[2]]).vclass \notin {"", None}
                => r.vclass_id # Null)

\* The enum document lacks a category, or declares a group with a member
\* that is no gender.
DocDefect ==
    LET doc == files["ENUMS"]
    IN \/ \E cls \in Range(EnumClasses) \cup {"GenderGroup"} :
            \A j \in 1..Len(doc) : doc[j].name # cls
       \/ \E j \in 1..Len(doc) : \E g \in 1..Len(doc[j].items) :
            Unknown \in Range(doc[j].items[g].members)

\* A form names a gender, case or number that is no enum value.
FormDefect(forms) ==
    \E j \in 1..Len(forms) : Unknown \in {forms[j].gender, forms[j].case, forms[j].number}

\* The field c of a line of a tabular file names no enum value.
FieldDefect(line, c) == c \in DOMAIN line /\ line[c] = Unknown

\* The record r of file k references, where the code looks it up by
\* subscript, an abbreviation that is in no category.
Defective(k, r) ==
    CASE k = "SANDHI" -> r.type = Unknown
      [] k = "VERB_ENDINGS" ->
            \/ Unknown \in {r.mode, r.voice}
            \/ \E j \in 1..Len(r.endings) :
                Unknown \in {r.endings[j].person, r.endings[j].number}
      [] k = "ROOTS" -> \E j \in 1..Len(r.paradigms) : Unknown \in Range(r.paradigms[j])
      [] k = "VERBS" ->
            \E c \in {"vclass", "person", "number", "mode", "voice"} : FieldDefect(r, c)
      [] k = "PARTICIPLE_STEMS" -> \E c \in {"mode", "voice"} : FieldDefect(r, c)
      [] k = "NOMINAL_ENDINGS" -> \E j \in 1..Len(r.endings) : r.endings[j].gender = Unknown
      [] k = "NOUN_STEMS" -> FieldDefect(r, "genders")
      [] k = "IRREGULAR_NOUNS" -> r.genders = Unknown \/ FormDefect(r.forms)
      [] k = "IRREGULAR_ADJECTIVES" -> FormDefect(r.forms)
      [] k = "PRONOUNS" -> r.genders = Unknown \/ FormDefect(r.forms)
      [] OTHER -> FALSE

\* The group r of nominal endings references, where the code fetches it with
\* get, a case or a number that is in no category.
GetDefective(k, r) ==
    /\ k = "NOMINAL_ENDINGS"
    /\ \E j \in 1..Len(r.endings) : Unknown \in {r.endings[j].case, r.endings[j].number}

\* A record read so far is defective.
RecordDefect ==
    \E k \in FileKeys \ {"ENUMS"} : \E r \in Range(files[k]) : Defective(k, r)

\* C4, as the claim states it: a record with an unresolvable enum reference
\* halts the stage and leaves no committed row: the committed store holds no
\* row that comes from such a record.
C4_DefectiveNeverCommitted ==
    \A t \in Tables : \A r \in Range(db[t]) :
        r.src[1] \in FileKeys \ {"ENUMS"} =>
            LET rec == files[r.src[1]][r.src[2]]
            IN ~Defective(r.src[1], rec) /\ ~GetDefective(r.src[1], rec)

\* C4, for the records at which a lookup does raise: when a lookup has ended
\* the run at a record, no committed row of any table comes from that
\* record: not its stem or group row, not one of its earlier form rows.
C4_NoPartialCommit ==
    (err # None /\ pos >= 1) =>
        \A t \in Tables : \A r \in Range(db[t]) :
            ~(r.src[1] = FileOf(fn, pass) /\ r.src[2] = pos)

\* An irregular noun whose second form fails: its stem row, its irregularity
\* row and its first form row are pending in the session.
C4_Witness ==
    /\ err # None /\ fn = "add_irregular_nouns" /\ pos >= 1
    /\ \E r \in Range(sess["noun_stem"]) : r.src = <<"IRREGULAR_NOUNS", pos, 0>>
    /\ \E r \in Range(sess["noun"]) : r.src = <<"IRREGULAR_NOUNS", pos, 1>>

\* C5: a root key that the root map lacks never ends the run: an exception
\* ends it only when the input has an unresolvable enum reference, and every
\* run ends, so a run whose only defects are unresolved root keys completes
\* all its stages.
C5_MissesNotFatal ==
    /\ [](err # None => (DocDefect \/ RecordDefect))
    /\ <>(fn = "done" \/ err # None)

\* A run that skipped a record has completed.
C5_Witness ==
    /\ fn = "done" /\ err = None
    /\ \E j \in 1..Len(out) : out[j][2] > 0

\* The verbs stage has just returned.
AfterVerbs == err = None /\ fn = "add_participle_stems" /\ ~inside

\* The root key of the j-th line of the verbs file.
VerbKey(j) ==
    LET row == read_csv(VerbHeader, files["VERBS"][j]) IN <<row.root, row.hom>>

VerbLines == 1..Len(files["VERBS"])

\* C6, as the claim states it: at the end of the verbs stage the Verb rows
\* are as many as the verb records whose key is in the root map, and the skip
\* count the stage reports is the number of verb records dropped.
C6_CountsRecords ==
    AfterVerbs =>
        /\ Len(db["verb"]) = Cardinality({j \in VerbLines : VerbKey(j) \in DOMAIN root_map})
        /\ out[Len(out)] =
            <<"add_verbs", Cardinality({j \in VerbLines : VerbKey(j) \notin DOMAIN root_map})>>

\* C6, amended: at the end of the verbs stage the Verb rows are as many as
\* the verb records whose key is in the root map, and the skip count the
\* stage reports is the number of distinct keys of the verb records dropped.
C6_CountsKeys ==
    AfterVerbs =>
        /\ Len(db["verb"]) = Cardinality({j \in VerbLines : VerbKey(j) \in DOMAIN root_map})
        /\ out[Len(out)] =
            <<"add_verbs",
              Cardinality({VerbKey(j) : j \in {k \in VerbLines : VerbKey(k) \notin DOMAIN root_map}})>>

\* Two verb lines of the same unresolved key were dropped, and the stage
\* reported one.
C6_Witness ==
    /\ AfterVerbs
    /\ Len(files["VERBS"]) = 2
    /\ VerbKey(1) = VerbKey(2)
    /\ out[Len(out)] = <<"add_verbs", 1>>

\* The calls of run, add_verbal and add_nominals, in the order of the source.
RunOrder ==
    <<"drop_all", "create_all", "add_tags", "add_enums", "add_sandhi",
      "add_indeclinables",
      "add_verbal", "add_verb_prefixes", "add_verb_endings", "add_roots", "add_verbs",
      "add_participle_stems", "add_verbal_indeclinables",
      "add_nominals", "add_nominal_endings", "add_noun_stems", "add_irregular_nouns",
      "add_adjective_stems", "add_irregular_adjectives", "add_pronouns">>

\* C7: the calls of a run so far are a beginning of the fixed order (drop,
\* create, tags, enums, sandhi rules, indeclinables, verbal data, nominal
\* data), no stage is entered while another is running, and no row is written
\* before the tables were dropped and created.
C7_FixedOrder ==
    /\ Len(calls) <= Len(RunOrder)
    /\ calls = SubSeq(RunOrder, 1, Len(calls))
    /\ "create_all" \notin Range(calls) =>
        /\ sess = NoRows /\ buf = <<>>
        /\ "drop_all" \in Range(calls) => db = NoRows
    /\ inside => calls # <<>> /\ calls[Len(calls)] = fn

\* A run has made all its calls.
C7_Witness == fn = "done" /\ err = None /\ calls = RunOrder

\* C8: once a lookup has raised, nothing more happens: no record is
\* processed, no row written or committed, no stage entered, no run started.
C8_AbortOnFirstError == [][err # None => UNCHANGED vars]_vars

\* The verbs stage has failed at a record, with every later stage to come.
C8_Witness == err # None /\ fn = "add_verbs" /\ pos >= 1 /\ "add_nominals" \notin Range(calls)

\* C9: a second run in the same process, over the same files, ends with the
\* same number of rows in every table as the first.
C9_SameCounts ==
    (fn = "done" /\ err = None /\ runs >= 2) =>
        \A t \in Tables : Len(db[t]) = seen[runs - 1][t]

\* A second run has ended, with a root from the files in the store.
C9_Witness ==
    /\ fn = "done" /\ err = None /\ runs = 2
    /\ \E r \in Range(db["root"]) : r.src[1] = "ROOTS"

\* The names of a path, and whether it starts at the root.
IsName(x) == x # "/"
PathNames(path) == SelectSeq(path, IsName)
Absolute(path) == path # <<>> /\ path[1] = "/"

\* C10: when the constructor has returned, every default key the source does
\* not supply is the path of the default file in directory lang of
\* DATA_PATH, every upper-case key of the source has the value the source
\* gives it, and the config has no key that is not upper case.
C10_Defaults ==
    new.at = "ready" =>
        LET given == {k \in DOMAIN new.config : isupper(k)}
        IN /\ \A k \in given : ctx.config[k] = new.config[k]
           /\ \A j \in 1..Len(Defaults) :
                Defaults[j][1] \notin given =>
                    /\ PathNames(ctx.config[Defaults[j][1]]) =
                            PathNames(new.config[DATA_PATH]) \o <<"lang", Defaults[j][2]>>
                    /\ Absolute(ctx.config[Defaults[j][1]]) = Absolute(new.config[DATA_PATH])
           /\ DOMAIN ctx.config = given \cup {Defaults[j][1] : j \in 1..Len(Defaults)}
           /\ \A k \in DOMAIN new.config : ~isupper(k) => k \notin DOMAIN ctx.config

\* A constructor has returned for a source that supplies the ENUMS key, a
\* DATA_PATH with a trailing separator and a lower-case key.
C10_Witness ==
    /\ new.at = "ready"
    /\ Defaults[2][1] \in DOMAIN new.config
    /\ new.config[DATA_PATH] = <<"data", "/">>
    /\ \E k \in DOMAIN new.config : ~isupper(k)

\* ---------------------------------------------------------- the registry

\* _build_enums runs in this step, and to its end.
Builds == builds' = builds + 1 /\ ret'.err = None

\* C11: after the registry is built from any enum rows, every row r of every
\* category is found under both of its strings and its id: enum_id[r.name]
\* = enum_id[r.abbr] = r.id and enum_abbr[r.id] = enum_abbr[r.name] = r.abbr,
\* also when the name of one row is the abbreviation of another row of the
\* category.
C11_TwoWayKeys ==
    [][Builds =>
        \A t \in RegistryTables : \A j \in 1..Len(Query(t)) :
            LET r == Query(t)[j]
            IN /\ registry'.enum_id[t][r.name] = r.id
               /\ registry'.enum_id[t][r.abbr] = r.id
               /\ registry'.enum_abbr[t][ById(r.id)] = r.abbr
               /\ registry'.enum_abbr[t][ByName(r.name)] = r.abbr]_vars

\* add_enums has been called and has returned.
EnumsDone == err = None /\ ~inside /\ "add_enums" \in Range(calls)

\* add_enums has been called and the caller has the control again.
EnumsRan == Idle /\ "add_enums" \in Range(calls)

\* The ids the enum stage gave the gender abbreviations ms.
AssignedIds(ms) ==
    {Query("gender")[j].id : j \in {k \in 1..Len(Query("gender")) :
                                        Query("gender")[k].abbr \in Range(ms)}}

\* Every gender group the document declares has a row, and the registry
\* built in this step holds for it the ids of its declared members.
GroupsRecovered ==
    LET doc == files["ENUMS"]
    IN \A p \in 1..Len(doc) : doc[p].name = "GenderGroup" =>
        \A j \in 1..Len(doc[p].items) :
            \E k \in 1..Len(Query("gender_group")) :
                LET g == Query("gender_group")[k]
                IN /\ g.src = <<"ENUMS", p, j>>
                   /\ g.id \in DOMAIN registry'.gender_set
                   /\ registry'.gender_set[g.id] = AssignedIds(doc[p].items[j].members)

C14_BuildOnce ==
    [][/\ builds' # builds => (builds = 0 /\ builds' = 1 /\ ret.n = 0)
       /\ (ret' # ret /\ ret.n = 0) => builds' = 1
       /\ registry.set => registry' = registry
       /\ (ret' # ret /\ registry.set) =>
            (ret'.err = None /\ ret'.value = registry[ret'.prop])]_vars

C14_Witness ==
    /\ builds = 1 /\ ret.n = 2 /\ ret.err = None /\ ret.prop = "enum_id"
    /\ "gender" \in DOMAIN registry.enum_id
    /\ registry.enum_id["gender"] = EmptyMap
    /\ db["gender"] # <<>>

\* ------------------------------------------------------------ add_enums

\* Every item of every ordinary category of the document has its row, and
\* the row is committed.
OrdinaryCommitted ==
    LET doc == files["ENUMS"]
    IN \A p \in 1..Len(doc) : doc[p].name \in Range(EnumClasses) =>
        \A j \in 1..Len(doc[p].items) :
            \E k \in 1..Len(db[TableName(doc[p].name)]) :
                db[TableName(doc[p].name)][k].src = <<"ENUMS", p, j>>

\* C13: in the enum stage a GenderGroup row exists (flushed or committed),
\* and with it a resolved membership, only when every ordinary category of
\* the document, Gender included, is inserted and committed, wherever in the
\* document Gender and GenderGroup stand.
C13_GroupsAfterCommit == Query("gender_group") # <<>> => OrdinaryCommitted

C13_Witness ==
    /\ fn = "add_enums" /\ pass = 2
    /\ files["ENUMS"][1].name = "GenderGroup"
    /\ sess["gender_group"] # <<>>
    /\ db["gender"] # <<>>

\* --------------------------------------------------------- batch writer

\* The stages that write in batches, with their file and their table.
BatchStages ==
    { <<"add_noun_stems", "NOUN_STEMS", "noun_stem">>,
      <<"add_adjective_stems", "ADJECTIVE_STEMS", "adjective_stem">> }

\* Stage f of this run has returned.
After(f) ==
    \/ fn = "done"
    \/ \E j, k \in 1..Len(Leaves) : Leaves[j] = f /\ Leaves[k] = fn /\ j < k

\* The sizes of the bulk inserts stage f has issued, in order.
Sizes(f) ==
    LET own == SelectSeq(execs, LAMBDA e : e[1] = f)
    IN [j \in 1..Len(own) |-> own[j][2]]

\* The rows of table t that were read from file k, in the order of the table.
RowsFrom(t, k) == SelectSeq(db[t], LAMBDA r : r.src[1] = k)

PendingIsCurrent ==
    \A t \in Tables : \A j \in 1..Len(sess[t]) :
        sess[t][j].src[1] \in {FileOf(fn, 1), FileOf(fn, 2)}

\* A step other than the drop of the schema loses no row: what was
\* committed stays committed, and what was pending is pending or committed.
NoRowLost ==
    fn # "drop_all" =>
        \A t \in Tables :
            /\ Len(db'[t]) >= Len(db[t])
            /\ SubSeq(db'[t] \o sess'[t], 1, Len(Rows(t))) = Rows(t)

\* C16: when a stage begins no row is pending in the session, and at every
\* moment, an abort inside a stage included, the pending rows are rows of
\* the current stage; no step discards a row, so every row an earlier stage
\* wrote is committed.
C16_EarlierStagesCommitted ==
    /\ [](~inside => sess = NoRows)
    /\ []PendingIsCurrent
    /\ [][NoRowLost]_vars

C16_Witness ==
    /\ err # None /\ fn = "add_irregular_nouns"
    /\ sess["noun_stem"] # <<>>
    /\ db["noun_stem"] # <<>> /\ db["gender_group"] # <<>>

\* ------------------------------------------------------------- root keys

\* C17: when the roots stage has returned, the root map has one entry per
\* inserted Root row, none of them replaced by a later record, and the id of
\* every Root row is the value of a key of the map.
C17_UniqueRootKeys ==
    (err = None /\ fn = "add_verbs" /\ ~inside) =>
        /\ Cardinality(DOMAIN root_map) = Len(db["root"])
        /\ \A j \in 1..Len(db["root"]) :
              \E key \in DOMAIN root_map : root_map[key] = db["root"][j].id

\* --------------------------------------------------------------- reports

\* The reports of stage f among what the run has printed.
ReportsOf(f) == {j \in 1..Len(out) : out[j][1] = f}

\* C18: each stage that resolves root keys (verbs, participle stems, verbal
\* indeclinables) has, once it has returned, reported its skipped count
\* exactly once, and the run has gone on.
C18_ReportsOnce ==
    \A f \in RootStages : After(f) => Cardinality(ReportsOf(f)) = 1

\* ------------------------------------------------- the verbal sub-pipeline

VerbalOrder == <<"add_verb_prefixes", "add_verb_endings", "add_roots", "add_verbs",
                 "add_participle_stems", "add_verbal_indeclinables">>

\* The calls of add_verbal this run has made, in order.
VerbalCalls == SelectSeq(calls, LAMBDA c : c \in Range(VerbalOrder))

\* Every entry of the root map is the id and name of a Root row of the
\* store of this run.
RootMapOfRun ==
    \A key \in DOMAIN root_map :
        \E j \in 1..Len(Rows("root")) :
            Rows("root")[j].id = root_map[key] /\ Rows("root")[j].name = key[1]

\* C19: add_verbal calls verb prefixes, verb endings, roots, verbs,
\* participle stems and verbal indeclinables in this order; the root map is
\* the one the roots stage of this run built from its Root rows; from the
\* return of the roots stage to the return of add_verbal no step changes it;
\* and each of the three later stages skips a record exactly if its key is
\* not in this map and else writes the id this map holds.
C19_OneRootMap ==
    /\ [](/\ Len(VerbalCalls) <= Len(VerbalOrder)
          /\ \A j \in 1..Len(VerbalCalls) : VerbalCalls[j] = VerbalOrder[j]
          /\ RootMapOfRun)
    /\ [][/\ (fn \in RootStages /\ fn' \in RootStages) => root_map' = root_map
          /\ \A f \in RootStages : Processed(f) =>
                LET row == RecordRead(f)
                    key == <<row.root, row.hom>>
                    ins == Inserted(TableOf(f, pass))
                IN IF key \in DOMAIN root_map
                   THEN /\ skipped' = skipped
                        /\ \A j \in 1..Len(ins) : ins[j].root_id = root_map[key]
                   ELSE key \in skipped' /\ ins = <<>>]_vars

C19_Witness ==
    /\ fn = "add_verbal_indeclinables" /\ pass = 2 /\ err = None
    /\ root_map # EmptyMap
    /\ Rows("infinitive") # <<>>

\* ------------------------------------------------------- disabled stages

SubPipelineStages ==
    Range(VerbalOrder) \cup
    {"add_nominal_endings", "add_noun_stems", "add_irregular_nouns",
     "add_adjective_stems", "add_irregular_adjectives", "add_pronouns"}

\* C21: no step of a stage of the verbal or nominal sub-pipeline changes
\* the rows of an enum table or of the gender group table, pending or
\* committed, or the enum map ENUM; and no step of a run after the drop of
\* the schema removes a row, so the row count of no table goes down.
C21_EnumTablesFrozen ==
    [][/\ fn \in SubPipelineStages =>
            /\ ENUM' = ENUM
            /\ \A t \in EnumTables \cup {"gender_group"} :
                  db'[t] = db[t] /\ sess'[t] = sess[t]
       /\ NoRowLost]_vars

C21_Witness ==
    /\ fn = "done" /\ err = None
    /\ db["verb_prefix"] # <<>> /\ db["noun_stem"] # <<>>
    /\ db["gender"] # <<>> /\ "gender" \in DOMAIN ENUM

\* The tables of the categories the current enum document does not hold.
AbsentTables ==
    (EnumTables \cup {"gender_group"}) \
        {TableName(files["ENUMS"][p].name) : p \in 1..Len(files["ENUMS"])}

\* The ids the rows of table t had in the schema of the earlier run.
EarlierIds(t) == {EarlierDb[t][j].id : j \in 1..Len(EarlierDb[t])}

\* C22: in a process whose earlier run left ENUM filled, a run over an enum
\* document that lacks categories changes the ENUM entry of a category only
\* at the document entry of that category, so the entry of every absent
\* category stays what the earlier run made it while the table of that
\* category is empty once the schema has been dropped; no stage fails on
\* looking a category up, and with the sandhi types absent every sandhi rule
\* add_sandhi writes carries an id of the dropped schema that no row of the
\* new sandhi_type table has.
C22_StaleEnum ==
    /\ [][\A t \in DOMAIN ENUM :
            /\ t \in DOMAIN ENUM'
            /\ ENUM'[t] # ENUM[t] =>
                 /\ fn = "add_enums" /\ pos \in 1..Len(files["ENUMS"])
                 /\ t = TableName(files["ENUMS"][pos].name)]_vars
    /\ [](\A t \in AbsentTables :
            /\ t \in DOMAIN ENUM /\ ENUM[t] = EarlierENUM[t]
            /\ fn # "drop_all" => Rows(t) = <<>>)
    /\ [](err # None => pos # 0)
    /\ []("sandhi_type" \in AbsentTables =>
            \A j \in 1..Len(Rows("sandhi_rule")) :
                /\ Rows("sandhi_rule")[j].rule_type \in EarlierIds("sandhi_type")
                /\ \A k \in 1..Len(Rows("sandhi_type")) :
                      Rows("sandhi_type")[k].id # Rows("sandhi_rule")[j].rule_type)

C22_Witness ==
    /\ fn = "done" /\ err = None
    /\ "sandhi_type" \in AbsentTables
    /\ db["sandhi_rule"] # <<>> /\ db["sandhi_type"] = <<>>
    /\ db["sandhi_rule"][1].rule_type = EarlierENUM["sandhi_type"]["ext"]

\* The source of the call holds no upper-case DATA_PATH.
NoDataPath == ~(DATA_PATH \in DOMAIN new.config /\ isupper(DATA_PATH))

\* C23: a constructor whose settings hold no DATA_PATH never returns: once
\* the settings are copied, its next step is the first call of default,
\* which raises KeyError and stores no default, whatever keys the settings
\* supply; the only other end is the IOError of a settings file that cannot
\* be read; and the engine is never connected.
C23_NoDataPathFails ==
    /\ [](NoDataPath =>
            /\ new.at # "ready"
            /\ ctx.engine = FALSE
            /\ new.at = "default" => new.n = 1
            /\ new.at = "failed" =>
                 \/ new.err = "KeyError" /\ new.n = 1 /\ new.source # "nopath"
                 \/ new.err = "IOError" /\ new.source = "nopath")
    /\ [][(NoDataPath /\ new.at = "default") =>
            /\ new'.at = "failed" /\ new'.err = "KeyError"
            /\ new'.n = 1
            /\ ctx' = ctx]_vars

\* The constructor has failed with KeyError at the first default for settings
\* that supply the database URI and the key of every default, connect asked.
C23_Witness ==
    /\ new.at = "failed" /\ new.err = "KeyError" /\ new.n = 1
    /\ NoDataPath
    /\ new.connect /\ DATABASE_URI \in DOMAIN new.config
    /\ \A j \in 1..Len(Defaults) : Defaults[j][1] \in DOMAIN new.config
    /\ ctx.engine = FALSE

=============================================================================
